---- MODULE Spec2Model ----
(***************************************************************************)
(* Message accumulation and reply pipeline of the personal Telegram        *)
(* assistant: the inbound handler that buffers PendingMessage rows and     *)
(* schedules one 'process-message' job per message, the owner's outgoing   *)
(* message handler that cancels pending auto-replies, and the job handler  *)
(* MessageProcessor.handleMessage, cut where it reads or writes the shared  *)
(* tables again after a suspension (the wait for the user to stop typing,   *)
(* the OpenAI call and the timed sends).  Jobs carry a unique jobId and     *)
(* nothing in the handler takes a lock, so jobs of one user interleave      *)
(* freely at those points.                                                  *)
(***************************************************************************)
EXTENDS Integers, Sequences, FiniteSets, TLC

\* ---- bounds of the model ----
MaxEvents == 2      \* Telegram updates (incoming or outgoing) observed in one behaviour
MaxChunks == 2      \* chunks a generated reply is split into
maxMessagesPerHour == 2 \* configured rateLimit.maxMessagesPerHour of the model
MaxSuppressed == 2  \* inbound messages observed beyond the rate limit
MaxTurns == 55      \* turns saved to one conversation when compaction is exercised
MaxSummaries == 2   \* summarizeMessages calls when compaction is exercised
MaxSavers == 2      \* saveFactsForUser calls in flight or finished
MaxFacts == 2       \* facts passed to one saveFactsForUser call
MaxLen == 6         \* characters of a text handed to splitIntoMessages on its own
WindowTicks == 3    \* clock ticks one rate window lasts

\* ---- program constants ----
contextMessagesLimit == 20
summaryThreshold == 50
maxWaitMs == 60000      \* waitForUserToStopTyping(telegramId, 60000)
quietMs == 5000         \* timeSinceLastTyping >= 5000
pollMs == 1000          \* setTimeout(resolve, 1000)
typingTtl == 10         \* redis.set(key, ..., 'EX', 10), in seconds
ttl == 3600             \* RateLimitService.ttl, in seconds

\* the parties; OwnerUser is the party whose telegram id is bot.ownerTelegramId
Users == {1}
OwnerUser == 1
\* bot.ownerTelegramId left unset, and the id of somebody who is not a party
NoOwner == 0
OtherUser == 2
\* one job id per inbound message (jobId: `${user.id}-${Date.now()}`)
MaxInbound == maxMessagesPerHour + MaxSuppressed
JobIds == 1..MaxInbound
NL == "\n"

VARIABLES
    pending,      \* pending_messages table, in createdAt order
    ignored,      \* conversations.isIgnored, per user
    history,      \* messages table of the user's conversation, in createdAt order
    jobs,         \* the 'process-message' jobs, by job id
    inbound,      \* inbound messages observed so far (telegram message ids)
    droppedIgnored, \* telegram message ids dropped by the inbound handler's ignore check
    ownerSent,    \* outgoing owner messages observed so far
    rate,         \* Redis hash rate_limit:user:<id> per user: count, warningSent and
                  \* the seconds the key has left to live (0: no expiry set, or no key)
    rateLog,      \* what the rate gate did in the current window of the hash
    typing,       \* Redis key typing_status:user:<id> per user: ms left to live, 0 if absent
    wait,         \* the waitForUserToStopTyping call followed poll by poll
    memory,       \* per user: conversations.summary, and the count of
                  \* summarizeMessages calls, failed transactions and saved turns
    userFacts,    \* user_facts table of the party, in createdAt order
    savers,       \* the saveFactsForUser calls, by call
    lastFact,     \* per category, the fact most recently written (0: none yet)
    delivery,     \* steps 8-10 of one job followed chunk by chunk
    chat,         \* the messages of the account in the party's chat, by message id
    sched,        \* the queue's view of the jobs added: the clock, the job ids taken,
                  \* and the telegram message ids whose add met a taken job id
    window,       \* the clock of the rate store and what happened to the hash since
                  \* its key was created
    ownerTelegramId, \* configured bot.ownerTelegramId (NoOwner: not configured)
    receipts,     \* telegram message ids whose read receipt call failed
    compaction,   \* per user: the summarizeConversation call under way
    convs         \* the rows of table conversations of one party, and the calls on them

vars == <<pending, ignored, history, jobs, inbound, droppedIgnored, ownerSent,
          rate, rateLog, typing, wait, memory, userFacts, savers, lastFact,
          delivery, chat, sched, window, ownerTelegramId,
          receipts, compaction, convs>>

\* the variables of the rate gate, which no step of the reply pipeline touches
rateVars == <<rate, rateLog>>
\* the typing marker and the wait that polls it
waitVars == <<typing, wait>>
\* the facts of the party and the calls that save them
factVars == <<userFacts, savers, lastFact>>
\* the delivery of one reply and the chat it is delivered to
deliveryVars == <<delivery, chat>>
\* what only the specifications of single services follow
extVars == <<window, ownerTelegramId, receipts, compaction, convs>>

\* ---- helpers ----
RECURSIVE SeqToSet(_)
SeqToSet(s) == IF s = <<>> THEN {} ELSE {Head(s)} \cup SeqToSet(Tail(s))

Min(a, b) == IF a < b THEN a ELSE b

LastN(s, n) == SubSeq(s, Len(s) - Min(Len(s), n) + 1, Len(s))

\* text of the inbound message with telegram message id k
MsgText(k) == "m" \o ToString(k)

\* ---- ConversationService ----

\* every row of pending_messages with the user's id, oldest first
getPendingMessagesAll(userId) ==
    SelectSeq([i \in 1..Len(pending) |-> i], LAMBDA i : pending[i].userId = userId)

\* variant: the processed filter of the query is dropped
getPendingMessages_All(userId) ==
    SelectSeq([i \in 1..Len(pending) |-> i], LAMBDA i : pending[i].userId = userId)

\* findMany where userId and processed = false, oldest first
getPendingMessages(userId) ==
    SelectSeq([i \in 1..Len(pending) |-> i],
              LAMBDA i : pending[i].userId = userId /\ ~pending[i].processed)

\* variant: the rows named are flipped instead of set
markPendingMessagesAsProcessed_Toggle(rows, messageIds) ==
    [i \in 1..Len(rows) |->
        IF i \in messageIds THEN [rows[i] EXCEPT !.processed = ~@] ELSE rows[i]]

\* updateMany where id in messageIds set processed = true
markPendingMessagesAsProcessed(rows, messageIds) ==
    [i \in 1..Len(rows) |->
        IF i \in messageIds THEN [rows[i] EXCEPT !.processed = TRUE] ELSE rows[i]]

savePendingMessage(rows, userId, content, telegramMessageId) ==
    Append(rows, [userId |-> userId, content |-> content,
                  telegramMessageId |-> telegramMessageId, processed |-> FALSE])

\* prisma.message.create; job is bookkeeping of the writer (0: the owner's handler)
saveMessage(turns, role, content, job) ==
    Append(turns, [role |-> role, content |-> content, job |-> job])

\* the last contextMessagesLimit turns, oldest first, as {role, content}
getConversationContext(turns) ==
    LET recent == LastN(turns, contextMessagesLimit)
    IN  [i \in 1..Len(recent) |-> [role |-> recent[i].role, content |-> recent[i].content]]

isConversationIgnored(userId) == ignored[userId]

NoMemory == [summary |-> <<>>, calls |-> 0, aborted |-> 0, saved |-> 0]

\* the text openaiService.summarizeMessages returns for the turns given
SummaryOf(messagesToSummarize) ==
    <<"summary", messagesToSummarize[1].content,
      messagesToSummarize[Len(messagesToSummarize)].content>>

\* variant: the update and the deleteMany are two statements, so a failure between
\* them keeps the first
Transaction_Sequential(outcome, before, after) ==
    IF outcome = "ok" THEN after ELSE [before EXCEPT !.summary = after.summary]

\* prisma.$transaction([update summary, deleteMany]): both statements or neither
Transaction(outcome, before, after) == IF outcome = "ok" THEN after ELSE before

\* summarizeConversation over the turns and the summary of one conversation; outcome
\* says whether summarizeMessages throws ("openaiFails"), the transaction fails
\* ("txFails") or both succeed ("ok")
summarizeConversation(turns, mem, outcome) ==
    LET messageCount == Len(turns)
        messagesToSummarize ==
            IF messageCount > contextMessagesLimit
            THEN SubSeq(turns, 1, messageCount - contextMessagesLimit) ELSE <<>>
    IN  IF messageCount < summaryThreshold \/ messagesToSummarize = <<>>
        THEN [turns |-> turns, mem |-> mem]
        ELSE IF outcome = "openaiFails"
        THEN [turns |-> turns, mem |-> [mem EXCEPT !.calls = @ + 1]]
        ELSE LET done == Transaction(outcome,
                             [summary |-> mem.summary, turns |-> turns],
                             [summary |-> SummaryOf(messagesToSummarize),
                              turns |-> LastN(turns, contextMessagesLimit)])
             IN  [turns |-> done.turns,
                  mem |-> [mem EXCEPT !.calls = @ + 1, !.summary = done.summary,
                                      !.aborted = IF outcome = "ok" THEN @ ELSE @ + 1]]

\* variant: the transaction keeps the most recent turns and deletes the others
deleteMany_AllButRecent(turns, rows) == LastN(turns, contextMessagesLimit)

\* prisma.message.deleteMany where id in the ids of rows (each turn of a
\* conversation is a row of its own: SaveTurn gives every turn its own content)
deleteMany(turns, rows) ==
    SelectSeq(turns, LAMBDA t : \A i \in 1..Len(rows) : rows[i] # t)

\* a summarizeConversation call between its read of the turns and its transaction:
\* the rows it read to summarize; readAt and doneAt: how many turns had been saved
\* at the read and at the end of the latest call
NoCompaction == [pc |-> "idle", messagesToSummarize |-> <<>>, readAt |-> 0, doneAt |-> 0]

\* the callers of the conversation functions for one party: the owner's command
\* (setConversationIgnored(userId, true)) and two jobs (findOrCreateConversation,
\* then saveMessage)
Callers == {"owner", "job1", "job2"}

\* a call: where it is, and the row its findOrCreateConversation returned (0: none yet)
NoCall == [pc |-> "start", conversation |-> 0]

\* rows: the conversations of the party, each with isIgnored and lastMessageAt; now:
\* the clock of the database; setDone: setConversationIgnored(userId, true) returned
NoConvs == [rows |-> <<>>, now |-> 0, calls |-> [c \in Callers |-> NoCall],
            setDone |-> FALSE]

\* prisma.conversation.findFirst({where: {userId}, orderBy: {lastMessageAt: 'desc'}}):
\* the index of the row, 0 for null
findFirstConversation(rows) ==
    IF rows = <<>> THEN 0
    ELSE CHOOSE i \in 1..Len(rows) :
            \A k \in 1..Len(rows) : rows[k].lastMessageAt <= rows[i].lastMessageAt

\* isConversationIgnored over the rows: conversation?.isIgnored ?? false
isConversationIgnoredIn(rows) ==
    LET conversation == findFirstConversation(rows)
    IN  IF conversation = 0 THEN FALSE ELSE rows[conversation].isIgnored

\* pending rows of the chat the owner wrote into
findPendingMessagesByTelegramId(userId) == getPendingMessages(userId)

\* ---- FactsService ----

SaverIds == 1..MaxSavers
Categories == {"name", "city"}

\* a call of saveFactsForUser: the facts it was given, the index of the fact its
\* loop is at, and the row findFirst returned for it (0: null)
NoSaver == [pc |-> "none", facts |-> <<>>, at |-> 0, existingFact |-> 0]

\* the facts of call t for the categories given: each value is told apart by the
\* call and the place in the list
ExtractedFacts(t, cats) ==
    [i \in 1..Len(cats) |-> [category |-> cats[i], fact |-> 10 * t + i]]

\* lists of one to MaxFacts categories
CategoryLists == UNION {[1..n -> Categories] : n \in 1..MaxFacts}

\* db.userFact.findFirst({where: {userId, category}}): the first such row, 0 if none
findFirst(rows, category) ==
    IF \E i \in 1..Len(rows) : rows[i].category = category
    THEN CHOOSE i \in 1..Len(rows) :
             /\ rows[i].category = category
             /\ \A k \in 1..(i - 1) : rows[k].category # category
    ELSE 0

\* ---- RateLimitService ----

\* variant: a failed read reports the limit as exceeded
checkLimit_FailClosed(r, readOk) ==
    IF readOk
    THEN [exceeded |-> r.count >= maxMessagesPerHour, warningSent |-> r.warningSent,
          currentCount |-> r.count]
    ELSE [exceeded |-> TRUE, warningSent |-> TRUE, currentCount |-> 0]

\* hgetall of the user's hash; a failed read reports the limit as not exceeded
checkLimit(r, readOk) ==
    IF readOk
    THEN [exceeded |-> r.count >= maxMessagesPerHour, warningSent |-> r.warningSent,
          currentCount |-> r.count]
    ELSE [exceeded |-> FALSE, warningSent |-> FALSE, currentCount |-> 0]

\* hincrby count 1, and expire(key, ttl) when the new count is 1; a failed command is
\* logged and the hash stays as the commands before it left it
incrementCounter(r, writeOk, expireOk) ==
    IF ~writeOk THEN r
    ELSE IF r.count + 1 = 1 /\ expireOk THEN [r EXCEPT !.count = @ + 1, !.left = ttl]
    ELSE [r EXCEPT !.count = @ + 1]

\* hset warningSent true; a failed write is logged and leaves the hash as it is
markWarningSent(r, writeOk) == IF writeOk THEN [r EXCEPT !.warningSent = TRUE] ELSE r

NoRate == [count |-> 0, warningSent |-> FALSE, left |-> 0]

\* the seconds of one clock tick
TickSeconds == ttl \div WindowTicks

\* a tick of the store's clock: a key with an expiry loses TickSeconds and is deleted
\* when nothing is left, a key without one stays
Expire(r) ==
    IF r.left = 0 THEN r
    ELSE IF r.left > TickSeconds THEN [r EXCEPT !.left = @ - TickSeconds]
    ELSE NoRate

\* now: ticks since the start, openedAt: the tick at which the count of the hash went
\* from 0 to 1, expireFailed: whether the expire command of that increment failed,
\* exceeded: what the last checkLimit call reported
NoWindow == [now |-> 0, openedAt |-> 0, expireFailed |-> FALSE, exceeded |-> FALSE]

\* bookkeeping of the current window: winStart is the number of inbound messages
\* seen before the window opened, fault whether a store operation failed in it,
\* readFailed the telegram message ids whose checkLimit could not read the store,
\* suppressed the telegram message ids that were not admitted and warned those of
\* them on which the warning message was delivered
NoRateLog == [winStart |-> 0, fault |-> FALSE, readFailed |-> {}, suppressed |-> {},
              warned |-> {}]

\* ---- typing marker and waitForUserToStopTyping ----

Max(a, b) == IF a > b THEN a ELSE b

\* redis.get(key) !== null; a failed read is reported as not typing
isUserTyping(left, readOk) == readOk /\ left > 0

\* variant: the loop runs while the time since the last typing poll is below the bound
LoopGuard_SinceTyping(elapsed, quiet) == quiet < maxWaitMs

\* while (Date.now() - startTime < maxWaitMs)
LoopGuard(elapsed, quiet) == elapsed < maxWaitMs

\* variant: lastTypingCheck is left as it is when the user is seen typing
NextQuiet_NoReset(isTyping, quiet) == quiet

\* lastTypingCheck = Date.now() when the user is seen typing
NextQuiet(isTyping, quiet) == IF isTyping THEN 0 ELSE quiet

\* the polls of the last quietMs, newest last, each with its age and what it saw
Aged(obs, d) ==
    SelectSeq([i \in 1..Len(obs) |-> [obs[i] EXCEPT !.age = @ + d]],
              LAMBDA o : o.age < quietMs)

\* elapsed is Date.now() - startTime (kept up to maxWaitMs), quiet is
\* Date.now() - lastTypingCheck, obs the recent polls
NoWait == [pc |-> "idle", job |-> 0, elapsed |-> 0, quiet |-> 0, result |-> FALSE,
           obs |-> <<>>]

\* ---- MessageProcessor helpers ----

\* variant: the second read is ignored and every id of the first read survives
StillPendingIds_KeepAll(pendingMessageIds, stillPending) == pendingMessageIds

\* pendingMessageIds.filter(id => stillPending.find(msg => msg.id === id))
StillPendingIds(pendingMessageIds, stillPending) ==
    SelectSeq(pendingMessageIds, LAMBDA id : id \in SeqToSet(stillPending))

\* messages.join('\n')
RECURSIVE join(_)
join(messages) ==
    IF messages = <<>> THEN <<>>
    ELSE IF Len(messages) = 1 THEN <<messages[1]>>
    ELSE <<messages[1], NL>> \o join(Tail(messages))

\* the chunks splitIntoMessages yields for a reply of n sentences
ChunkText(k) == "s" \o ToString(k)
SplitResult(n) == [k \in 1..n |-> ChunkText(k)]

\* text sent for a chunk when introduceTypo altered it
TypoOf(text) == text \o "~"

\* ---- texts as sequences of characters ----
SP == " "
Punct == {".", "!", "?"}

\* String.prototype.trim over the characters of the model
RECURSIVE trimStart(_)
trimStart(s) == IF s # <<>> /\ Head(s) = SP THEN trimStart(Tail(s)) ELSE s

RECURSIVE trimEnd(_)
trimEnd(s) == IF s # <<>> /\ s[Len(s)] = SP THEN trimEnd(SubSeq(s, 1, Len(s) - 1)) ELSE s

trim(s) == trimEnd(trimStart(s))

\* text.split(' '): the pieces between single spaces, empty pieces kept
RECURSIVE splitSpace(_, _)
splitSpace(text, cur) ==
    IF text = <<>> THEN <<cur>>
    ELSE IF Head(text) = SP THEN <<cur>> \o splitSpace(Tail(text), <<>>)
    ELSE splitSpace(Tail(text), Append(cur, Head(text)))

\* words.join(' ')
RECURSIVE joinSpace(_)
joinSpace(words) ==
    IF words = <<>> THEN <<>>
    ELSE IF Len(words) = 1 THEN words[1]
    ELSE words[1] \o <<SP>> \o joinSpace(Tail(words))

\* ---- MessageProcessor.postProcessText ----

\* the map over the characters: the k-th draw decides about the next comma
RECURSIVE dropCommas(_, _, _)
dropCommas(text, drops, k) ==
    IF text = <<>> THEN <<>>
    ELSE IF Head(text) = ","
    THEN (IF drops[k] THEN <<>> ELSE <<",">>) \o dropCommas(Tail(text), drops, k + 1)
    ELSE <<Head(text)>> \o dropCommas(Tail(text), drops, k)

\* drops[k]: whether Math.random() < 0.25 at the k-th comma
postProcessText(text, drops) ==
    LET n == Len(text)
        processed == IF n >= 1 /\ text[n] = "." /\ ~(n >= 2 /\ text[n - 1] = ".")
                     THEN SubSeq(text, 1, n - 1) ELSE text
    IN  trim(dropCommas(processed, drops, 1))

\* ---- MessageProcessor.splitIntoMessages ----

\* text.split(/([.!?])/): text, mark, text, mark, ..., text
RECURSIVE splitPunct(_, _)
splitPunct(text, cur) ==
    IF text = <<>> THEN <<cur>>
    ELSE IF Head(text) \in Punct
    THEN <<cur, <<Head(text)>>>> \o splitPunct(Tail(text), <<>>)
    ELSE splitPunct(Tail(text), Append(cur, Head(text)))

\* variant: only the last mark ends a message
Flush_LastOnly(draw, i, n) == i >= n - 2

\* Math.random() < 0.6 || i >= parts.length - 2, i counted from 0
Flush(draw, i, n) == draw \/ i >= n - 2

\* the loop over parts from the i-th on (i counted from 1); rnd[k]: whether
\* Math.random() < 0.6 at the k-th draw
RECURSIVE splitLoop(_, _, _, _, _, _)
splitLoop(parts, i, currentMessage, messages, rnd, k) ==
    IF i > Len(parts)
    THEN [currentMessage |-> currentMessage, messages |-> messages]
    ELSE LET part == trim(parts[i]) IN
         IF part = <<>>
         THEN splitLoop(parts, i + 1, currentMessage, messages, rnd, k)
         ELSE IF Len(part) = 1 /\ part[1] \in Punct
         THEN LET withMark == currentMessage \o part IN
              IF Flush(rnd[k], i - 1, Len(parts))
              THEN IF trim(withMark) # <<>>
                   THEN splitLoop(parts, i + 1, <<>>, Append(messages, trim(withMark)),
                                  rnd, k + 1)
                   ELSE splitLoop(parts, i + 1, withMark, messages, rnd, k + 1)
              ELSE splitLoop(parts, i + 1, Append(withMark, SP), messages, rnd, k + 1)
         ELSE splitLoop(parts, i + 1, currentMessage \o part, messages, rnd, k)

splitIntoMessages(text, rnd) ==
    LET parts == splitPunct(text, <<>>)
        loop == splitLoop(parts, 1, <<>>, <<>>, rnd, 1)
        messages == IF trim(loop.currentMessage) # <<>>
                    THEN Append(loop.messages, trim(loop.currentMessage))
                    ELSE loop.messages
    IN  IF messages = <<>> THEN <<text>> ELSE messages

\* ---- utils/typo-generator ----

\* the keys next to a key, for the letters of the model
KEYBOARD_LAYOUT(c) ==
    CASE c = "a" -> <<"q", "w", "s", "z">>
      [] c = "s" -> <<"w", "e", "d", "a", "z", "x">>
      [] OTHER -> <<>>

TypoTypes == {"skip_letter", "neighbor_key", "extra_space"}

\* what Math.floor(Math.random() * n) is taken from: pick % n
Picks == 0..3

\* the draws of one introduceTypo call: hit is Math.random() <= probability
TypoDraws == [hit : BOOLEAN, typoType : TypoTypes, a : Picks, b : Picks, c : Picks]

\* positions are counted from 0 as in the source
skipLetter(word, pick) ==
    IF Len(word) <= 3 THEN word
    ELSE LET index == (pick % (Len(word) - 2)) + 1
         IN  SubSeq(word, 1, index) \o SubSeq(word, index + 2, Len(word))

replaceWithNeighbor(word, pick, pickNeighbor) ==
    IF Len(word) <= 2 THEN word
    ELSE LET index == (pick % (Len(word) - 2)) + 1
             neighbors == KEYBOARD_LAYOUT(word[index + 1])
         IN  IF neighbors = <<>> THEN word
             ELSE SubSeq(word, 1, index)
                  \o <<neighbors[(pickNeighbor % Len(neighbors)) + 1]>>
                  \o SubSeq(word, index + 2, Len(word))

addExtraSpace(text, pick) ==
    LET words == splitSpace(text, <<>>) IN
    IF Len(words) <= 1 THEN text
    ELSE LET index == pick % (Len(words) - 1)
         IN  joinSpace(SubSeq(words, 1, index + 1)) \o <<SP, SP>>
             \o joinSpace(SubSeq(words, index + 2, Len(words)))

introduceTypo(text, r) ==
    LET words == splitSpace(text, <<>>)
        wordIndex == (r.a % Len(words)) + 1
        word == words[wordIndex]
        newWord == IF r.typoType = "skip_letter" THEN skipLetter(word, r.b)
                   ELSE replaceWithNeighbor(word, r.b, r.c)
        textWithTypo ==
            IF r.typoType = "extra_space" THEN addExtraSpace(text, r.a)
            ELSE IF newWord # word
            THEN joinSpace([words EXCEPT ![wordIndex] = newWord])
            ELSE text
    IN  IF ~r.hit \/ Len(text) < 5 \/ textWithTypo = text
        THEN [text |-> text, hasTypo |-> FALSE, originalText |-> <<>>]
        ELSE [text |-> textWithTypo, hasTypo |-> TRUE, originalText |-> text]

\* ---- TelegramService.setTyping / markAsRead ----

\* variant: the error of the request reaches the caller
setTyping_Throws(callOk) == [threw |-> ~callOk]

\* client.invoke(SetTyping) inside try/catch: an error is logged and the call returns
setTyping(callOk) == [threw |-> FALSE]

\* client.invoke(ReadHistory) inside try/catch, the same
markAsRead(callOk) == [threw |-> FALSE]

\* ---- TelegramService.sendMessage / editMessage ----

\* what `await this.telegramService.sendMessage(...)` evaluates to: the method is
\* declared Promise<void> and returns no message id
NoId == 0

\* the gateway gives the new message the next id of the chat; chunk is bookkeeping
\* of the chunk the message carries
sendMessage(log, text, chunk) ==
    Append(log, [id |-> Len(log) + 1, text |-> text, chunk |-> chunk])

\* client.editMessage(entity, {message: messageId, text}): the message of that id
\* gets the text; an id that names no message changes nothing
editMessage(log, messageId, text) ==
    [k \in 1..Len(log) |->
        IF log[k].id = messageId THEN [log[k] EXCEPT !.text = text] ELSE log[k]]

\* messages: the chunks, i: the chunk the send loop is at, messageId and originalText:
\* the locals of the typo branch
NoDelivery == [pc |-> "idle", text |-> <<>>, rnd |-> <<>>, messages |-> <<>>, i |-> 0,
               messageId |-> NoId, originalText |-> <<>>]

\* a job: its position in handleMessage, its return value, and the handler's locals;
\* marked is the argument of its markPendingMessagesAsProcessed call; claimedAtRecheck
\* (the ids of its batch found processed) and seen (the user's rows buffered so far)
\* are recorded when the wait for the user to stop typing ends, gathered (the user's
\* rows buffered so far) at the first buffer read; typingFailed: whether the
\* SetTyping requests of the job failed
NoJob == [pc |-> "none", result |-> "", userId |-> 0, batch |-> <<>>, ctx |-> <<>>,
          still |-> <<>>, messages |-> <<>>, sent |-> <<>>, calls |-> 0,
          marked |-> {}, claimedAtRecheck |-> {}, seen |-> 0, gathered |-> 0,
          typingFailed |-> FALSE]

\* ---- the queue of 'process-message' jobs ----

\* jobId: `${user.id}-${Date.now()}`
JobIdOf(userId, now) == <<userId, now>>

NoSched == [now |-> 0, ids |-> {}, merged |-> {}]

\* messageQueue.add('process-message', data, {delay, jobId}) at time now for the
\* message with telegram message id k: a job id that is taken already adds no job
QueueAdd(q, userId, now, k) ==
    LET jobId == JobIdOf(userId, now)
    IN  [accepted |-> jobId \notin q.ids,
         sched |-> [q EXCEPT !.ids = @ \cup {jobId},
                             !.merged = IF jobId \in q.ids THEN @ \cup {k} ELSE @]]

\* the stores and the processes at the start
InitStores ==
    /\ pending = <<>>
    /\ ignored = [u \in Users |-> FALSE]
    /\ history = [u \in Users |-> <<>>]
    /\ jobs = [j \in JobIds |-> NoJob]
    /\ inbound = 0
    /\ droppedIgnored = {}
    /\ ownerSent = 0
    /\ rate = [u \in Users |-> NoRate]
    /\ rateLog = NoRateLog
    /\ typing = [u \in Users |-> 0]
    /\ wait = NoWait
    /\ memory = [u \in Users |-> NoMemory]
    /\ userFacts = <<>>
    /\ savers = [t \in SaverIds |-> NoSaver]
    /\ lastFact = [c \in Categories |-> 0]
    /\ delivery = NoDelivery
    /\ chat = <<>>
    /\ sched = NoSched
    /\ window = NoWindow
    /\ receipts = {}
    /\ compaction = [u \in Users |-> NoCompaction]
    /\ convs = NoConvs

\* the account the client is logged in as is OwnerUser, and so is the configured owner
Init == InitStores /\ ownerTelegramId = OwnerUser

\* the owner id is configured as the account, as somebody else, or not at all
InitAnyOwner == InitStores /\ ownerTelegramId \in {NoOwner, OwnerUser, OtherUser}

\* ---- TelegramService: NewMessage handler for an incoming private message ----

\* what the rate gate at the head of the handler does with the hash and the party:
\* over the limit the handler returns, after sending the warning and writing the
\* flag when the flag was read as unset (a failed send throws past the flag write);
\* otherwise the message is admitted and the counter incremented
RateGate(u, readOk, writeOk, sendOk) ==
    LET rateLimitStatus == checkLimit(rate[u], readOk)
        id == inbound + 1
        failed == ~readOk \/ (~writeOk /\ (~rateLimitStatus.exceeded
                                            \/ (~rateLimitStatus.warningSent /\ sendOk)))
        log == [rateLog EXCEPT !.fault = @ \/ failed,
                               !.readFailed = IF readOk THEN @ ELSE @ \cup {id}]
    IN  IF rateLimitStatus.exceeded
        THEN [admitted |-> FALSE,
              rate |-> IF ~rateLimitStatus.warningSent /\ sendOk
                       THEN markWarningSent(rate[u], writeOk) ELSE rate[u],
              log |-> [log EXCEPT !.suppressed = @ \cup {id},
                                  !.warned = IF ~rateLimitStatus.warningSent /\ sendOk
                                             THEN @ \cup {id} ELSE @]]
        ELSE [admitted |-> TRUE,
              rate |-> incrementCounter(rate[u], writeOk, writeOk),
              log |-> log]

\* ---- OwnerCommandsService.handleOwnerCommand ----

\* variant: the sender is not compared with the configured owner
handleOwnerCommand_AnySender(configured, senderId, kind) ==
    IF configured = NoOwner \/ kind \notin {"stop", "continue"}
    THEN [isCommand |-> FALSE, isOwnerMessage |-> FALSE, setIgnored |-> FALSE]
    ELSE [isCommand |-> TRUE, isOwnerMessage |-> TRUE, setIgnored |-> kind = "stop"]

\* no command when no owner is configured, when the sender is not the owner, or when
\* the text lacks the bot name (kinds "text" and "media"); "stop" and "continue" are
\* the bot name with the command word, and setIgnored is what handleStopChat or
\* handleContinueChat passes to setConversationIgnored
handleOwnerCommand(configured, senderId, kind) ==
    IF configured = NoOwner \/ senderId # configured \/ kind \notin {"stop", "continue"}
    THEN [isCommand |-> FALSE, isOwnerMessage |-> FALSE, setIgnored |-> FALSE]
    ELSE [isCommand |-> TRUE, isOwnerMessage |-> TRUE, setIgnored |-> kind = "stop"]

\* the text of an inbound message: of kind "text" a text without the bot name, of the
\* other kinds the bot name and the command word
InboundText(kind, k) ==
    CASE kind = "stop" -> "bot stop"
      [] kind = "continue" -> "bot continue"
      [] OTHER -> MsgText(k)

\* kind "text" is an ordinary message; "stop" and "continue" are the owner commands,
\* recognised by OwnerCommandsService.handleOwnerCommand when the sender is the owner
InboundKinds(u) == IF u = OwnerUser THEN {"text", "stop", "continue"} ELSE {"text"}

\* variant: the handler buffers and schedules even when the conversation is ignored
NewMessage_NoIgnoreCheck(u, kind, readOk, writeOk, sendOk) ==
    LET gate == RateGate(u, readOk, writeOk, sendOk)
        now == sched.now + 1
        add == QueueAdd([sched EXCEPT !.now = now], u, now, inbound + 1)
    IN
    /\ inbound < MaxInbound
    /\ inbound' = inbound + 1
    /\ rate' = [rate EXCEPT ![u] = gate.rate]
    /\ rateLog' = gate.log
    /\ UNCHANGED <<history, ownerSent, waitVars, memory>>
    /\ droppedIgnored' = IF gate.admitted /\ ignored[u] THEN droppedIgnored \cup {inbound + 1}
                         ELSE droppedIgnored
    /\ IF ~gate.admitted
       THEN /\ sched' = [sched EXCEPT !.now = now]
            /\ UNCHANGED <<pending, jobs, ignored>>
       ELSE IF kind # "text" /\ ~ignored[u]
       THEN /\ ignored' = [ignored EXCEPT ![u] = (kind = "stop")]
            /\ sched' = [sched EXCEPT !.now = now]
            /\ UNCHANGED <<pending, jobs>>
       ELSE /\ pending' = savePendingMessage(pending, u, MsgText(inbound + 1), inbound + 1)
            /\ jobs' = IF add.accepted
                       THEN [jobs EXCEPT ![inbound + 1] =
                                [NoJob EXCEPT !.pc = "queued", !.userId = u]]
                       ELSE jobs
            /\ sched' = add.sched
            /\ UNCHANGED ignored
    /\ UNCHANGED factVars
    /\ UNCHANGED <<deliveryVars, extVars>>

\* variant: a message over the limit is buffered and scheduled like an admitted one
NewMessage_NoRateGate(u, kind, readOk, writeOk, sendOk) ==
    LET gate == RateGate(u, readOk, writeOk, sendOk)
        now == sched.now + 1
        add == QueueAdd([sched EXCEPT !.now = now], u, now, inbound + 1)
    IN
    /\ inbound < MaxInbound
    /\ inbound' = inbound + 1
    /\ rate' = [rate EXCEPT ![u] = gate.rate]
    /\ rateLog' = gate.log
    /\ UNCHANGED <<history, ownerSent, waitVars, memory>>
    /\ IF isConversationIgnored(u)
       THEN /\ droppedIgnored' = droppedIgnored \cup {inbound + 1}
            /\ sched' = [sched EXCEPT !.now = now]
            /\ UNCHANGED <<pending, jobs, ignored>>
       ELSE IF kind # "text"
       THEN /\ ignored' = [ignored EXCEPT ![u] = (kind = "stop")]
            /\ sched' = [sched EXCEPT !.now = now]
            /\ UNCHANGED <<pending, jobs, droppedIgnored>>
       ELSE /\ pending' = savePendingMessage(pending, u, MsgText(inbound + 1), inbound + 1)
            /\ jobs' = IF add.accepted
                       THEN [jobs EXCEPT ![inbound + 1] =
                                [NoJob EXCEPT !.pc = "queued", !.userId = u]]
                       ELSE jobs
            /\ sched' = add.sched
            /\ UNCHANGED <<droppedIgnored, ignored>>
    /\ UNCHANGED factVars
    /\ UNCHANGED <<deliveryVars, extVars>>

\* the handler run dt milliseconds after its previous run
\* the handler: dt is the time since its previous run, receiptOk whether the
\* ReadHistory request of markAsRead or markAsReadWithDelay succeeds
NewMessageWith(u, kind, readOk, writeOk, sendOk, dt, receiptOk) ==
    LET gate == RateGate(u, readOk, writeOk, sendOk)
        now == sched.now + dt
        add == QueueAdd([sched EXCEPT !.now = now], u, now, inbound + 1)
    IN
    /\ inbound < MaxInbound
    /\ inbound' = inbound + 1
    /\ rate' = [rate EXCEPT ![u] = gate.rate]
    /\ rateLog' = gate.log
    /\ UNCHANGED <<history, ownerSent, waitVars, memory>>
    /\ IF ~gate.admitted
       THEN /\ sched' = [sched EXCEPT !.now = now]
            /\ UNCHANGED <<pending, jobs, ignored, droppedIgnored>>
       ELSE IF isConversationIgnored(u)
       THEN /\ droppedIgnored' = droppedIgnored \cup {inbound + 1}
            /\ sched' = [sched EXCEPT !.now = now]
            /\ UNCHANGED <<pending, jobs, ignored>>
       ELSE IF handleOwnerCommand(ownerTelegramId, u, kind).isCommand
       THEN /\ ignored' = [ignored EXCEPT ![u] =
                               handleOwnerCommand(ownerTelegramId, u, kind).setIgnored]
            /\ sched' = [sched EXCEPT !.now = now]
            /\ UNCHANGED <<pending, jobs, droppedIgnored>>
       ELSE /\ pending' = savePendingMessage(pending, u, InboundText(kind, inbound + 1),
                                               inbound + 1)
            /\ jobs' = IF add.accepted
                       THEN [jobs EXCEPT ![inbound + 1] =
                                [NoJob EXCEPT !.pc = "queued", !.userId = u]]
                       ELSE jobs
            /\ sched' = add.sched
            /\ UNCHANGED <<droppedIgnored, ignored>>
    /\ receipts' = IF gate.admitted /\ ~markAsRead(receiptOk).threw /\ ~receiptOk
                   THEN receipts \cup {inbound + 1} ELSE receipts
    /\ UNCHANGED factVars
    /\ UNCHANGED <<deliveryVars, window, ownerTelegramId, compaction, convs>>

\* the handler when the read receipt goes through
NewMessageAfter(u, kind, readOk, writeOk, sendOk, dt) ==
    NewMessageWith(u, kind, readOk, writeOk, sendOk, dt, TRUE)

\* the handler when a millisecond has passed since its previous run
NewMessage(u, kind, readOk, writeOk, sendOk) ==
    NewMessageAfter(u, kind, readOk, writeOk, sendOk, 1)

\* the hash of the user expires (TTL of one hour set with the first increment)
WindowExpires(u) ==
    /\ rate[u].left > 0
    /\ rate' = [rate EXCEPT ![u] = NoRate]
    /\ rateLog' = [NoRateLog EXCEPT !.winStart = inbound]
    /\ UNCHANGED <<pending, ignored, history, jobs, inbound, droppedIgnored, ownerSent>>
    /\ UNCHANGED <<waitVars, memory>>
    /\ UNCHANGED factVars
    /\ UNCHANGED <<deliveryVars, sched, extVars>>

\* ---- RateLimitService called on its own, with the store's clock ----
MaxNow == 2 * WindowTicks

CheckLimit(u, readOk) ==
    /\ window' = [window EXCEPT !.exceeded = checkLimit(rate[u], readOk).exceeded]
    /\ UNCHANGED <<pending, ignored, history, jobs, inbound, droppedIgnored, ownerSent>>
    /\ UNCHANGED <<rate, rateLog, waitVars, memory, factVars, deliveryVars, sched>>
    /\ UNCHANGED <<ownerTelegramId, receipts, compaction, convs>>

IncrementCounter(u, writeOk, expireOk) ==
    /\ rate[u].count < MaxInbound
    /\ rate' = [rate EXCEPT ![u] = incrementCounter(rate[u], writeOk, expireOk)]
    /\ window' = IF writeOk /\ rate[u].count = 0
                 THEN [window EXCEPT !.openedAt = window.now, !.expireFailed = ~expireOk]
                 ELSE window
    /\ UNCHANGED <<pending, ignored, history, jobs, inbound, droppedIgnored, ownerSent>>
    /\ UNCHANGED <<rateLog, waitVars, memory, factVars, deliveryVars, sched>>
    /\ UNCHANGED <<ownerTelegramId, receipts, compaction, convs>>

MarkWarningSent(u, writeOk) ==
    /\ rate' = [rate EXCEPT ![u] = markWarningSent(rate[u], writeOk)]
    /\ UNCHANGED <<pending, ignored, history, jobs, inbound, droppedIgnored, ownerSent>>
    /\ UNCHANGED <<rateLog, waitVars, memory, factVars, deliveryVars, sched, window>>
    /\ UNCHANGED <<ownerTelegramId, receipts, compaction, convs>>

\* TickSeconds pass
Tick(u) ==
    /\ window.now < MaxNow
    /\ rate' = [rate EXCEPT ![u] = Expire(rate[u])]
    /\ window' = IF Expire(rate[u]) = NoRate
                 THEN [NoWindow EXCEPT !.now = window.now + 1,
                                       !.exceeded = window.exceeded]
                 ELSE [window EXCEPT !.now = @ + 1]
    /\ UNCHANGED <<pending, ignored, history, jobs, inbound, droppedIgnored, ownerSent>>
    /\ UNCHANGED <<rateLog, waitVars, memory, factVars, deliveryVars, sched>>
    /\ UNCHANGED <<ownerTelegramId, receipts, compaction, convs>>

\* ---- ConversationService.markPendingMessagesAsProcessed called with any id list ----
MarkProcessed(messageIds) ==
    /\ pending' = markPendingMessagesAsProcessed(pending, messageIds)
    /\ UNCHANGED <<ignored, history, jobs, inbound, droppedIgnored, ownerSent>>
    /\ UNCHANGED <<rateVars, waitVars, memory>>
    /\ UNCHANGED factVars
    /\ UNCHANGED <<deliveryVars, sched, extVars>>

\* ---- TelegramService.handleControlCommands: an outgoing message of the owner ----
OwnerKinds == {"text", "media", "stop", "continue"}

OwnerText(kind) ==
    CASE kind = "text" -> "owner"
      [] kind = "media" -> ""
      [] kind = "stop" -> "bot stop"
      [] kind = "continue" -> "bot continue"

\* variant: the pending rows are cancelled only when the outgoing message has a text
handleControlCommands_TextOnly(u, kind) ==
    /\ inbound + ownerSent < MaxEvents
    /\ ownerSent' = ownerSent + 1
    /\ pending' = IF OwnerText(kind) # ""
                  THEN markPendingMessagesAsProcessed(
                           pending, SeqToSet(findPendingMessagesByTelegramId(u)))
                  ELSE pending
    /\ history' = IF OwnerText(kind) # ""
                  THEN [history EXCEPT ![u] =
                            saveMessage(history[u], "assistant", <<OwnerText(kind)>>, 0)]
                  ELSE history
    /\ ignored' = CASE kind = "stop" -> [ignored EXCEPT ![u] = TRUE]
                    [] kind = "continue" -> [ignored EXCEPT ![u] = FALSE]
                    [] OTHER -> ignored
    /\ UNCHANGED <<jobs, inbound, droppedIgnored>>
    /\ UNCHANGED <<rateVars, waitVars, memory>>
    /\ UNCHANGED factVars
    /\ UNCHANGED <<deliveryVars, sched, extVars>>

handleControlCommands(u, kind) ==
    /\ inbound + ownerSent < MaxEvents
    /\ ownerSent' = ownerSent + 1
    /\ pending' = markPendingMessagesAsProcessed(
                      pending, SeqToSet(findPendingMessagesByTelegramId(u)))
    /\ history' = IF OwnerText(kind) # ""
                  THEN [history EXCEPT ![u] =
                            saveMessage(history[u], "assistant", <<OwnerText(kind)>>, 0)]
                  ELSE history
    /\ ignored' = LET commandResult == handleOwnerCommand(ownerTelegramId, OwnerUser, kind)
                  IN  IF commandResult.isCommand
                      THEN [ignored EXCEPT ![u] = commandResult.setIgnored]
                      ELSE ignored
    /\ UNCHANGED <<jobs, inbound, droppedIgnored>>
    /\ UNCHANGED <<rateVars, waitVars, memory>>
    /\ UNCHANGED factVars
    /\ UNCHANGED <<deliveryVars, sched, extVars>>

\* ---- MessageProcessor.handleMessage ----

\* variant: the handler goes on with an empty first read
Gather_NoEmptyCheck(j) ==
    LET u == jobs[j].userId
        pendingMessages == getPendingMessages(u)
        saved == [i \in 1..Len(pendingMessages) |->
                     [role |-> "user",
                      content |-> <<pending[pendingMessages[i]].content>>,
                      job |-> j]]
    IN
    /\ jobs[j].pc = "queued"
    /\ UNCHANGED <<ignored, inbound, droppedIgnored, ownerSent>>
    /\ UNCHANGED <<rateVars, waitVars, memory>>
    /\ IF isConversationIgnored(u)
       THEN /\ pending' = markPendingMessagesAsProcessed(pending, SeqToSet(pendingMessages))
            /\ jobs' = [jobs EXCEPT ![j].pc = "done", ![j].result = "ignored",
                                    ![j].marked = SeqToSet(pendingMessages)]
            /\ UNCHANGED history
       ELSE /\ history' = [history EXCEPT ![u] = history[u] \o saved]
            /\ jobs' = [jobs EXCEPT ![j].pc = "await",
                                    ![j].batch = pendingMessages,
                                    ![j].gathered = Len(getPendingMessagesAll(u)),
                                    ![j].ctx = getConversationContext(history[u] \o saved)]
            /\ UNCHANGED pending
    /\ UNCHANGED factVars
    /\ UNCHANGED <<deliveryVars, sched, extVars>>

\* steps 0-4: ignore check, first buffer read, user turns saved, context loaded
Gather(j) ==
    LET u == jobs[j].userId
        pendingMessages == getPendingMessages(u)
        saved == [i \in 1..Len(pendingMessages) |->
                     [role |-> "user",
                      content |-> <<pending[pendingMessages[i]].content>>,
                      job |-> j]]
    IN
    /\ jobs[j].pc = "queued"
    /\ UNCHANGED <<ignored, inbound, droppedIgnored, ownerSent>>
    /\ UNCHANGED <<rateVars, waitVars, memory>>
    /\ IF isConversationIgnored(u)
       THEN /\ pending' = markPendingMessagesAsProcessed(pending, SeqToSet(pendingMessages))
            /\ jobs' = [jobs EXCEPT ![j].pc = "done", ![j].result = "ignored",
                                    ![j].marked = SeqToSet(pendingMessages)]
            /\ UNCHANGED history
       ELSE IF pendingMessages = <<>>
       THEN /\ jobs' = [jobs EXCEPT ![j].pc = "done", ![j].result = "noop"]
            /\ UNCHANGED <<pending, history>>
       ELSE /\ history' = [history EXCEPT ![u] = history[u] \o saved]
            /\ jobs' = [jobs EXCEPT ![j].pc = "await",
                                    ![j].batch = pendingMessages,
                                    ![j].gathered = Len(getPendingMessagesAll(u)),
                                    ![j].ctx = getConversationContext(history[u] \o saved)]
            /\ UNCHANGED pending
    /\ UNCHANGED factVars
    /\ UNCHANGED <<deliveryVars, sched, extVars>>

\* ---- AwaitingQuiet followed poll by poll ----

\* UpdateUserTyping with SendMessageTypingAction: setUserTyping
SetTyping(u) ==
    /\ typing' = [typing EXCEPT ![u] = typingTtl * 1000]
    /\ UNCHANGED <<pending, ignored, history, jobs, inbound, droppedIgnored, ownerSent,
                   rateVars, wait, memory>>
    /\ UNCHANGED factVars
    /\ UNCHANGED <<deliveryVars, sched, extVars>>

\* UpdateUserTyping with SendMessageCancelAction: clearUserTyping
ClearTyping(u) ==
    /\ typing' = [typing EXCEPT ![u] = 0]
    /\ UNCHANGED <<pending, ignored, history, jobs, inbound, droppedIgnored, ownerSent,
                   rateVars, wait, memory>>
    /\ UNCHANGED factVars
    /\ UNCHANGED <<deliveryVars, sched, extVars>>

\* step 4.3: the job calls waitForUserToStopTyping
BeginWait(j) ==
    /\ jobs[j].pc = "await"
    /\ wait.pc = "idle"
    /\ wait' = [NoWait EXCEPT !.pc = "polling", !.job = j]
    /\ UNCHANGED <<pending, ignored, history, jobs, inbound, droppedIgnored, ownerSent,
                   rateVars, typing, memory>>
    /\ UNCHANGED factVars
    /\ UNCHANGED <<deliveryVars, sched, extVars>>

\* one turn of the loop of waitForUserToStopTyping: the loop condition, the poll of
\* the typing key, and either the return or the sleep of pollMs
Poll(j, readOk) ==
    LET u == jobs[j].userId
        isTyping == isUserTyping(typing[u], readOk)
        quiet == NextQuiet(isTyping, wait.quiet)
        obs == Append(wait.obs, [age |-> 0, typing |-> isTyping])
    IN
    /\ wait.pc = "polling" /\ wait.job = j
    /\ IF ~LoopGuard(wait.elapsed, wait.quiet)
       THEN /\ wait' = [wait EXCEPT !.pc = "returned", !.result = FALSE]
            /\ UNCHANGED typing
       ELSE IF ~isTyping /\ quiet >= quietMs
       THEN /\ wait' = [wait EXCEPT !.pc = "returned", !.result = TRUE, !.obs = obs]
            /\ UNCHANGED typing
       ELSE /\ wait' = [wait EXCEPT !.elapsed = Min(@ + pollMs, maxWaitMs),
                                    !.quiet = quiet + pollMs,
                                    !.obs = Aged(obs, pollMs)]
            /\ typing' = [v \in Users |-> Max(0, typing[v] - pollMs)]
    /\ UNCHANGED <<pending, ignored, history, jobs, inbound, droppedIgnored, ownerSent,
                   rateVars, memory>>
    /\ UNCHANGED factVars
    /\ UNCHANGED <<deliveryVars, sched, extVars>>

\* step 4.5: after waitForUserToStopTyping returned, the second buffer read
Reconcile(j) ==
    LET u == jobs[j].userId
        pendingMessageIds == jobs[j].batch
        stillPending == getPendingMessages(u)
        stillPendingIds == StillPendingIds(pendingMessageIds, stillPending)
    IN
    /\ jobs[j].pc = "await"
    /\ jobs' = [jobs EXCEPT
                  ![j].still = stillPendingIds,
                  ![j].claimedAtRecheck =
                      {id \in SeqToSet(pendingMessageIds) : pending[id].processed},
                  ![j].seen = Len(getPendingMessagesAll(u)),
                  ![j].pc = IF stillPendingIds = <<>> THEN "done" ELSE "generating",
                  ![j].result = IF stillPendingIds = <<>> THEN "cancelled" ELSE ""]
    /\ UNCHANGED <<pending, ignored, history, inbound, droppedIgnored, ownerSent>>
    /\ UNCHANGED <<rateVars, waitVars, memory>>
    /\ UNCHANGED factVars
    /\ UNCHANGED <<deliveryVars, sched, extVars>>

\* variant: the send loop is left after the first chunk
SendLoop_Early(messages, stopAt, how) ==
    [sent |-> SubSeq(messages, 1, 1), ok |-> TRUE]

\* step 10, the send loop over the chunks: every chunk is sent (a chunk sent with a
\* typo is followed by the correction call), unless the loop is left by an exception at chunk
\* stopAt: how = "send" when sendMessage throws, how = "edit" when the chunk went out
\* with a typo and editMessage throws. stopAt = 0: no exception.
SendLoop(messages, stopAt, how) ==
    IF stopAt = 0 \/ stopAt > Len(messages)
    THEN [sent |-> messages, ok |-> TRUE]
    ELSE [sent |-> IF how = "send"
                   THEN SubSeq(messages, 1, stopAt - 1)
                   ELSE Append(SubSeq(messages, 1, stopAt - 1), TypoOf(messages[stopAt])),
          ok |-> FALSE]

\* variant: a failed generation drains the surviving ids instead of leaving them
Respond_MarkOnFail(j, ok, n, stopAt, how) ==
    LET messages == SplitResult(n)
        loop == SendLoop(messages, stopAt, how)
    IN
    /\ jobs[j].pc = "generating"
    /\ jobs' = IF ~ok
               THEN [jobs EXCEPT ![j].calls = @ + 1, ![j].pc = "failed",
                                 ![j].result = "error",
                                 ![j].marked = SeqToSet(jobs[j].still)]
               ELSE [jobs EXCEPT ![j].calls = @ + 1, ![j].messages = messages,
                                 ![j].sent = loop.sent,
                                 ![j].pc = IF loop.ok THEN "finalizing" ELSE "failed",
                                 ![j].result = IF loop.ok THEN "" ELSE "error"]
    /\ pending' = IF ok THEN pending
                  ELSE markPendingMessagesAsProcessed(pending, SeqToSet(jobs[j].still))
    /\ UNCHANGED <<ignored, history, inbound, droppedIgnored, ownerSent>>
    /\ UNCHANGED <<rateVars, waitVars, memory>>
    /\ UNCHANGED factVars
    /\ UNCHANGED <<deliveryVars, sched, extVars>>

\* variant: the catch of the handler sends a text about the failure before it rethrows
Respond_Apology(j, ok, n, stopAt, how) ==
    LET messages == SplitResult(n)
        loop == SendLoop(messages, stopAt, how)
    IN
    /\ jobs[j].pc = "generating"
    /\ jobs' = IF ~ok
               THEN [jobs EXCEPT ![j].calls = @ + 1, ![j].pc = "failed",
                                 ![j].result = "error", ![j].sent = <<"error">>]
               ELSE [jobs EXCEPT ![j].calls = @ + 1, ![j].messages = messages,
                                 ![j].sent = IF loop.ok THEN loop.sent
                                             ELSE Append(loop.sent, "error"),
                                 ![j].pc = IF loop.ok THEN "finalizing" ELSE "failed",
                                 ![j].result = IF loop.ok THEN "" ELSE "error"]
    /\ UNCHANGED <<pending, ignored, history, inbound, droppedIgnored, ownerSent>>
    /\ UNCHANGED <<rateVars, waitVars, memory>>
    /\ UNCHANGED factVars
    /\ UNCHANGED <<deliveryVars, sched, extVars>>

\* steps 5-10: the typing indicator is set (typingOk: whether the SetTyping requests
\* of steps 6 and 10 succeed), openaiService.generateResponse throws (ok = FALSE) or
\* returns a text that splitIntoMessages cuts into n chunks, which the send loop
\* delivers
RespondWith(j, typingOk, ok, n, stopAt, how) ==
    LET messages == SplitResult(n)
        loop == SendLoop(messages, stopAt, how)
    IN
    /\ jobs[j].pc = "generating"
    /\ jobs' = IF setTyping(typingOk).threw
               THEN [jobs EXCEPT ![j].pc = "failed", ![j].result = "error",
                                 ![j].typingFailed = TRUE]
               ELSE IF ~ok
               THEN [jobs EXCEPT ![j].calls = @ + 1, ![j].pc = "failed",
                                 ![j].result = "error", ![j].typingFailed = ~typingOk]
               ELSE [jobs EXCEPT ![j].calls = @ + 1, ![j].messages = messages,
                                 ![j].sent = loop.sent,
                                 ![j].pc = IF loop.ok THEN "finalizing" ELSE "failed",
                                 ![j].result = IF loop.ok THEN "" ELSE "error",
                                 ![j].typingFailed = ~typingOk]
    /\ UNCHANGED <<pending, ignored, history, inbound, droppedIgnored, ownerSent>>
    /\ UNCHANGED <<rateVars, waitVars, memory>>
    /\ UNCHANGED factVars
    /\ UNCHANGED <<deliveryVars, sched, extVars>>

\* steps 5-10 when the typing indicator goes through
Respond(j, ok, n, stopAt, how) == RespondWith(j, TRUE, ok, n, stopAt, how)

\* variant: the ids of the first read are marked, not only the surviving ones
Finalize_MarkBatch(j) ==
    LET u == jobs[j].userId
        fullResponse == join(jobs[j].messages)
        compacted == summarizeConversation(
                         saveMessage(history[u], "assistant", fullResponse, j),
                         memory[u], "ok")
    IN
    /\ jobs[j].pc = "finalizing"
    /\ history' = [history EXCEPT ![u] = compacted.turns]
    /\ memory' = [memory EXCEPT ![u] = compacted.mem]
    /\ pending' = markPendingMessagesAsProcessed(pending, SeqToSet(jobs[j].batch))
    /\ jobs' = [jobs EXCEPT ![j].pc = "done", ![j].result = "replied",
                            ![j].marked = SeqToSet(jobs[j].batch)]
    /\ UNCHANGED <<ignored, inbound, droppedIgnored, ownerSent>>
    /\ UNCHANGED <<rateVars, waitVars>>
    /\ UNCHANGED factVars
    /\ UNCHANGED <<deliveryVars, sched, extVars>>

\* variant: every row found unprocessed at step 12 is marked
Finalize_MarkUnread(j) ==
    LET u == jobs[j].userId
        fullResponse == join(jobs[j].messages)
        compacted == summarizeConversation(
                         saveMessage(history[u], "assistant", fullResponse, j),
                         memory[u], "ok")
    IN
    /\ jobs[j].pc = "finalizing"
    /\ history' = [history EXCEPT ![u] = compacted.turns]
    /\ memory' = [memory EXCEPT ![u] = compacted.mem]
    /\ pending' = markPendingMessagesAsProcessed(pending, SeqToSet(getPendingMessages(u)))
    /\ jobs' = [jobs EXCEPT ![j].pc = "done", ![j].result = "replied",
                            ![j].marked = SeqToSet(getPendingMessages(u))]
    /\ UNCHANGED <<ignored, inbound, droppedIgnored, ownerSent>>
    /\ UNCHANGED <<rateVars, waitVars>>
    /\ UNCHANGED factVars
    /\ UNCHANGED <<deliveryVars, sched, extVars>>

\* steps 11-13: assistant turn saved, surviving ids marked processed, conversation
\* compacted when it is long enough
Finalize(j) ==
    LET u == jobs[j].userId
        fullResponse == join(jobs[j].messages)
        compacted == summarizeConversation(
                         saveMessage(history[u], "assistant", fullResponse, j),
                         memory[u], "ok")
    IN
    /\ jobs[j].pc = "finalizing"
    /\ history' = [history EXCEPT ![u] = compacted.turns]
    /\ memory' = [memory EXCEPT ![u] = compacted.mem]
    /\ pending' = markPendingMessagesAsProcessed(pending, SeqToSet(jobs[j].still))
    /\ jobs' = [jobs EXCEPT ![j].pc = "done", ![j].result = "replied",
                            ![j].marked = SeqToSet(jobs[j].still)]
    /\ UNCHANGED <<ignored, inbound, droppedIgnored, ownerSent>>
    /\ UNCHANGED <<rateVars, waitVars>>
    /\ UNCHANGED factVars
    /\ UNCHANGED <<deliveryVars, sched, extVars>>

\* ---- FactsService.saveFactsForUser, one database statement at a time ----

\* extractAndSaveFacts (step 14, not awaited) calls saveFactsForUser with the facts
\* extracted
StartSave(t, cats) ==
    /\ savers[t].pc = "none"
    /\ savers' = [savers EXCEPT ![t] = [NoSaver EXCEPT !.pc = "find", !.at = 1,
                                                       !.facts = ExtractedFacts(t, cats)]]
    /\ UNCHANGED <<pending, ignored, history, jobs, inbound, droppedIgnored, ownerSent,
                   rateVars, waitVars, memory, userFacts, lastFact>>
    /\ UNCHANGED <<deliveryVars, sched, extVars>>

\* the findFirst of the fact the loop is at; a failed query is caught and the loop
\* goes to the next fact
FindFact(t, dbOk) ==
    LET sv == savers[t]
        last == sv.at = Len(sv.facts)
    IN
    /\ sv.pc = "find"
    /\ savers' = IF dbOk
                 THEN [savers EXCEPT ![t].pc = "write",
                                     ![t].existingFact =
                                         findFirst(userFacts, sv.facts[sv.at].category)]
                 ELSE [savers EXCEPT ![t].pc = IF last THEN "done" ELSE "find",
                                     ![t].at = IF last THEN @ ELSE @ + 1]
    /\ UNCHANGED <<pending, ignored, history, jobs, inbound, droppedIgnored, ownerSent,
                   rateVars, waitVars, memory, userFacts, lastFact>>
    /\ UNCHANGED <<deliveryVars, sched, extVars>>

\* the update of the row found, or the create of a new row when none was found;
\* a failed statement is caught and the loop goes to the next fact
WriteFact(t, dbOk) ==
    LET sv == savers[t]
        f == sv.facts[sv.at]
        last == sv.at = Len(sv.facts)
    IN
    /\ sv.pc = "write"
    /\ userFacts' = IF ~dbOk THEN userFacts
                    ELSE IF sv.existingFact # 0
                    THEN [userFacts EXCEPT ![sv.existingFact].fact = f.fact]
                    ELSE Append(userFacts, f)
    /\ lastFact' = IF dbOk THEN [lastFact EXCEPT ![f.category] = f.fact] ELSE lastFact
    /\ savers' = [savers EXCEPT ![t].pc = IF last THEN "done" ELSE "find",
                                ![t].at = IF last THEN @ ELSE @ + 1,
                                ![t].existingFact = 0]
    /\ UNCHANGED <<pending, ignored, history, jobs, inbound, droppedIgnored, ownerSent,
                   rateVars, waitVars, memory>>
    /\ UNCHANGED <<deliveryVars, sched, extVars>>

\* ---- steps 8-10 of handleMessage, chunk by chunk ----

\* replies of the Completion Service (aiResponse.content)
Replies ==
    { <<"a", "s", "a", "s", " ", "s", "a", ",", " ", "a", "s", ".", " ",
        "s", "a", "s", "a", "?">>,
      <<"a", "s", " ", "s", "a", ".">>,
      <<"o", "k">> }

\* the draws of Math.random() < 0.6 in splitIntoMessages, one per mark
AlwaysFlush == [k \in 1..MaxLen |-> TRUE]
RandomSources == {AlwaysFlush, [k \in 1..MaxLen |-> FALSE], [k \in 1..MaxLen |-> k % 2 = 0]}

\* steps 8-9: the reply is post-processed and split
StartDelivery(content, dropComma, rnd) ==
    LET processedText == postProcessText(content, [k \in 1..Len(content) |-> dropComma])
    IN
    /\ delivery.pc = "idle"
    /\ delivery' = [NoDelivery EXCEPT !.pc = "sending", !.text = processedText,
                                      !.rnd = rnd,
                                      !.messages = splitIntoMessages(processedText, rnd),
                                      !.i = 1]
    /\ UNCHANGED <<pending, ignored, history, jobs, inbound, droppedIgnored, ownerSent,
                   rateVars, waitVars, memory, chat>>
    /\ UNCHANGED <<factVars, sched, extVars>>

\* the six emojis the response schema names for a reaction, and one more emoji
AllowedReactions == {"thumbsup", "heart", "fire", "party", "clap", "grin"}
WAVE == "wave"

\* what generateResponse returns: the parsed JSON of the completion; the schema
\* fixes responseType to two values and leaves content any string
AIResponses ==
    [responseType : {"text"}, content : Replies]
    \cup [responseType : {"reaction"}, content : {<<"thumbsup">>, <<"grin">>, <<WAVE>>}]

\* steps 7-9: of the response only content is read
Generated(aiResponse, dropComma, rnd) == StartDelivery(aiResponse.content, dropComma, rnd)

\* short replies: marks only, an ellipsis at the end, a word
ShortReplies ==
    { <<".">>, <<",">>, <<"!">>, <<".", ".", ".">>, <<"a", ".", ".", ".">>,
      <<"a", ".">>, <<"a", ",">>, <<"o", "k">> }

\* where the loop goes after chunk i
AfterChunk(d) ==
    IF d.i < Len(d.messages)
    THEN [d EXCEPT !.pc = "sending", !.i = @ + 1, !.messageId = NoId,
                   !.originalText = <<>>]
    ELSE [d EXCEPT !.pc = "done", !.messageId = NoId, !.originalText = <<>>]

\* step 10 for chunk i up to its send: introduceTypo, then the chunk is sent as it
\* is, or with the typo and the loop sleeps before the correction
SendChunk(r, sendOk) ==
    LET msg == delivery.messages[delivery.i]
        typoResult == introduceTypo(msg, r)
    IN
    /\ delivery.pc = "sending"
    /\ IF ~sendOk
       THEN /\ delivery' = [delivery EXCEPT !.pc = "failed"]
            /\ UNCHANGED chat
       ELSE IF typoResult.hasTypo /\ typoResult.originalText # <<>>
       THEN /\ chat' = sendMessage(chat, typoResult.text, delivery.i)
            /\ delivery' = [delivery EXCEPT !.pc = "fixing", !.messageId = NoId,
                                            !.originalText = typoResult.originalText]
       ELSE /\ chat' = sendMessage(chat, msg, delivery.i)
            /\ delivery' = AfterChunk(delivery)
    /\ UNCHANGED <<pending, ignored, history, jobs, inbound, droppedIgnored, ownerSent,
                   rateVars, waitVars, memory>>
    /\ UNCHANGED <<factVars, sched, extVars>>

\* the correction: editMessage(telegramId, messageId, typoResult.originalText); the
\* call throws (editOk = FALSE) or returns
FixTypo(editOk) ==
    /\ delivery.pc = "fixing"
    /\ IF ~editOk
       THEN /\ delivery' = [delivery EXCEPT !.pc = "failed"]
            /\ UNCHANGED chat
       ELSE /\ chat' = editMessage(chat, delivery.messageId, delivery.originalText)
            /\ delivery' = AfterChunk(delivery)
    /\ UNCHANGED <<pending, ignored, history, jobs, inbound, droppedIgnored, ownerSent,
                   rateVars, waitVars, memory>>
    /\ UNCHANGED <<factVars, sched, extVars>>

\* a string is its UTF-16 code units, as length, slice and indexing count them: a
\* character outside the basic plane is the pair of a high and a low surrogate
HI == "hi"
LO == "lo"

\* words of chunks, some with an emoji at an end
TypoWords ==
    { <<"a", "s", "a", "s">>, <<"a", "s", "a", HI, LO>>, <<HI, LO, "s", "a">>,
      <<"s", "a">>, <<"a", "s", "a">>, <<"s", "a", "s", "a", "s">> }

\* chunks of one or two words
TypoTexts == TypoWords \cup {w1 \o <<SP>> \o w2 : w1 \in TypoWords, w2 \in TypoWords}

\* introduceTypo applied to a chunk: chunk and result are kept
Typo(text, r) ==
    LET typoResult == introduceTypo(text, r) IN
    /\ delivery.pc = "idle"
    /\ delivery' = [NoDelivery EXCEPT !.pc = IF typoResult.hasTypo THEN "typo" ELSE "plain",
                                      !.text = text,
                                      !.messages = <<typoResult.text>>,
                                      !.originalText = typoResult.originalText]
    /\ UNCHANGED <<pending, ignored, history, jobs, inbound, droppedIgnored, ownerSent,
                   rateVars, waitVars, memory, chat>>
    /\ UNCHANGED <<factVars, sched, extVars>>

\* splitIntoMessages applied to a text
Chars == {"a", SP, ".", "!", "?"}
Texts == UNION {[1..n -> Chars] : n \in 0..MaxLen}

Split(text, rnd) ==
    /\ delivery.pc = "idle"
    /\ delivery' = [NoDelivery EXCEPT !.pc = "split", !.text = text, !.rnd = rnd,
                                      !.messages = splitIntoMessages(text, rnd)]
    /\ UNCHANGED <<pending, ignored, history, jobs, inbound, droppedIgnored, ownerSent,
                   rateVars, waitVars, memory, chat>>
    /\ UNCHANGED <<factVars, sched, extVars>>

\* ---- ConversationService exercised on a long conversation ----

\* saveMessage of one more turn to the user's conversation
SaveTurn(u) ==
    LET k == memory[u].saved + 1 IN
    /\ memory[u].saved < MaxTurns
    /\ history' = [history EXCEPT
                      ![u] = saveMessage(history[u],
                                         IF k % 2 = 1 THEN "user" ELSE "assistant",
                                         <<MsgText(k)>>, 0)]
    /\ memory' = [memory EXCEPT ![u].saved = k]
    /\ UNCHANGED <<pending, ignored, jobs, inbound, droppedIgnored, ownerSent,
                   rateVars, waitVars>>
    /\ UNCHANGED factVars
    /\ UNCHANGED <<deliveryVars, sched, extVars>>

\* summarizeConversation(conversation.id)
Compact(u, outcome) ==
    LET compacted == summarizeConversation(history[u], memory[u], outcome) IN
    /\ memory[u].calls < MaxSummaries
    /\ history' = [history EXCEPT ![u] = compacted.turns]
    /\ memory' = [memory EXCEPT ![u] = compacted.mem]
    /\ UNCHANGED <<pending, ignored, jobs, inbound, droppedIgnored, ownerSent,
                   rateVars, waitVars>>
    /\ UNCHANGED factVars
    /\ UNCHANGED <<deliveryVars, sched, extVars>>

\* ---- the conversations of one party, row by row ----

ConvUnchanged ==
    /\ UNCHANGED <<pending, ignored, history, jobs, inbound, droppedIgnored, ownerSent,
                   rateVars, waitVars, memory>>
    /\ UNCHANGED factVars
    /\ UNCHANGED <<deliveryVars, sched, window, ownerTelegramId, receipts, compaction>>

\* findOrCreateConversation, its findFirst
FindConversation(c) ==
    LET conversation == findFirstConversation(convs.rows) IN
    /\ convs.calls[c].pc = "start"
    /\ convs' = [convs EXCEPT
                    !.calls[c] = [pc |-> IF conversation = 0 THEN "create" ELSE "have",
                                  conversation |-> conversation]]
    /\ ConvUnchanged

\* findOrCreateConversation, its create after a findFirst that returned null: the
\* row gets lastMessageAt = CURRENT_TIMESTAMP and is not ignored
CreateConversation(c) ==
    /\ convs.calls[c].pc = "create"
    /\ convs' = [convs EXCEPT
                    !.rows = Append(@, [isIgnored |-> FALSE,
                                        lastMessageAt |-> convs.now + 1]),
                    !.now = @ + 1,
                    !.calls[c] = [pc |-> "have", conversation |-> Len(convs.rows) + 1]]
    /\ ConvUnchanged

\* setConversationIgnored(userId, true), its update of the row it got
UpdateIgnored(c) ==
    /\ c = "owner"
    /\ convs.calls[c].pc = "have"
    /\ convs' = [convs EXCEPT
                    !.rows[convs.calls[c].conversation].isIgnored = TRUE,
                    !.calls[c].pc = "done",
                    !.setDone = TRUE]
    /\ ConvUnchanged

\* saveMessage(conversation.id, ...) of a job: lastMessageAt = new Date()
SaveMessageTo(c) ==
    /\ c # "owner"
    /\ convs.calls[c].pc = "have"
    /\ convs' = [convs EXCEPT
                    !.rows[convs.calls[c].conversation].lastMessageAt = convs.now + 1,
                    !.now = @ + 1,
                    !.calls[c].pc = "done"]
    /\ ConvUnchanged

\* summarizeConversation up to its call of summarizeMessages: the read of the
\* conversation with its turns, the check of the threshold and the slice
ReadTurns(u) ==
    LET turns == history[u]
        messageCount == Len(turns)
        messagesToSummarize ==
            IF messageCount > contextMessagesLimit
            THEN SubSeq(turns, 1, messageCount - contextMessagesLimit) ELSE <<>>
    IN
    /\ compaction[u].pc = "idle"
    /\ memory[u].calls < MaxSummaries
    /\ compaction' =
          IF messageCount < summaryThreshold \/ messagesToSummarize = <<>>
          THEN compaction
          ELSE [compaction EXCEPT ![u] = [pc |-> "read",
                                          messagesToSummarize |-> messagesToSummarize,
                                          readAt |-> memory[u].saved,
                                          doneAt |-> 0]]
    /\ UNCHANGED <<pending, ignored, history, jobs, inbound, droppedIgnored, ownerSent,
                   rateVars, waitVars, memory>>
    /\ UNCHANGED factVars
    /\ UNCHANGED <<deliveryVars, sched, window, ownerTelegramId, receipts, convs>>

\* the rest of the call: summarizeMessages throws ("openaiFails"), or returns and the
\* transaction fails ("txFails") or commits ("ok")
CommitSummary(u, outcome) ==
    LET c == compaction[u]
        done == Transaction(outcome,
                    [summary |-> memory[u].summary, turns |-> history[u]],
                    [summary |-> SummaryOf(c.messagesToSummarize),
                     turns |-> deleteMany(history[u], c.messagesToSummarize)])
    IN
    /\ c.pc = "read"
    /\ history' = [history EXCEPT ![u] = IF outcome = "openaiFails" THEN @ ELSE done.turns]
    /\ memory' = [memory EXCEPT
                     ![u].calls = @ + 1,
                     ![u].summary = IF outcome = "openaiFails" THEN @ ELSE done.summary,
                     ![u].aborted = IF outcome = "txFails" THEN @ + 1 ELSE @]
    /\ compaction' = [compaction EXCEPT ![u] = [NoCompaction EXCEPT
                                                   !.readAt = c.readAt,
                                                   !.doneAt = memory[u].saved]]
    /\ UNCHANGED <<pending, ignored, jobs, inbound, droppedIgnored, ownerSent,
                   rateVars, waitVars>>
    /\ UNCHANGED factVars
    /\ UNCHANGED <<deliveryVars, sched, window, ownerTelegramId, receipts, convs>>

Next ==
    \/ \E u \in Users : \E kind \in InboundKinds(u) :
          inbound + ownerSent < MaxEvents /\ NewMessage(u, kind, TRUE, TRUE, TRUE)
    \/ \E u \in Users, kind \in OwnerKinds : handleControlCommands(u, kind)
    \/ \E j \in JobIds : Gather(j)
    \/ \E j \in JobIds : Reconcile(j)
    \/ \E j \in JobIds, ok \in BOOLEAN, n \in 1..MaxChunks, stopAt \in 0..MaxChunks,
          how \in {"send", "edit"} : Respond(j, ok, n, stopAt, how)
    \/ \E j \in JobIds : Finalize(j)

Spec == Init /\ [][Next]_vars

\* the inbound handler alone, with a rate store and a gateway that may fail, and the
\* expiry of the rate window
NextRate ==
    \/ \E u \in Users, readOk \in BOOLEAN, writeOk \in BOOLEAN, sendOk \in BOOLEAN :
          NewMessage(u, "text", readOk, writeOk, sendOk)
    \/ \E u \in Users : WindowExpires(u)

SpecRate == Init /\ [][NextRate]_vars

\* the two handlers alone, under every configuration of the owner id: the party
\* writes texts with and without the bot name and a command word, and so does the
\* account
NextOwner ==
    \/ \E u \in Users, kind \in {"text", "stop", "continue"} :
          NewMessage(u, kind, TRUE, TRUE, TRUE)
    \/ \E u \in Users, kind \in OwnerKinds : handleControlCommands(u, kind)
    \/ \E u \in Users : WindowExpires(u)

SpecOwner == InitAnyOwner /\ [][NextOwner]_vars

\* no job is waiting or running
Quiescent == \A j \in JobIds : jobs[j].pc \in {"none", "done", "failed"}

\* the inbound handler and the jobs with every failure the model has: the rate store
\* unreadable, the gateway failing on the warning, on a chunk or on a correction,
\* and the Completion Service failing; a message arrives when no job is under way
NextFail ==
    \/ \E u \in Users, readOk \in BOOLEAN, sendOk \in BOOLEAN :
          /\ Quiescent /\ inbound + ownerSent <= MaxEvents
          /\ NewMessage(u, "text", readOk, TRUE, sendOk)
    \/ \E j \in JobIds : Gather(j)
    \/ \E j \in JobIds : Reconcile(j)
    \/ \E j \in JobIds, ok \in BOOLEAN, n \in 1..MaxChunks, stopAt \in 0..MaxChunks,
          how \in {"send", "edit"} : Respond(j, ok, n, stopAt, how)
    \/ \E j \in JobIds : Finalize(j)

SpecFail == Init /\ [][NextFail]_vars

\* the handlers and the jobs with the cosmetic requests free to fail: the read
\* receipt of the inbound handler and the typing indicator of the job; a message
\* arrives when no job is under way
NextCosmetic ==
    \/ \E u \in Users, receiptOk \in BOOLEAN :
          /\ Quiescent /\ inbound + ownerSent <= MaxEvents
          /\ NewMessageWith(u, "text", TRUE, TRUE, TRUE, 1, receiptOk)
    \/ \E u \in Users : handleControlCommands(u, "stop")
    \/ \E j \in JobIds : Gather(j)
    \/ \E j \in JobIds : Reconcile(j)
    \/ \E j \in JobIds, typingOk \in BOOLEAN, ok \in BOOLEAN, n \in 1..MaxChunks,
          stopAt \in 0..MaxChunks, how \in {"send", "edit"} :
          RespondWith(j, typingOk, ok, n, stopAt, how)
    \/ \E j \in JobIds : Finalize(j)

SpecCosmetic == Init /\ [][NextCosmetic]_vars

\* the rate limiter alone: its three methods called in any order, every store command
\* free to fail on its own, while the clock of the store ticks
NextWindow ==
    \/ \E u \in Users, readOk \in BOOLEAN : CheckLimit(u, readOk)
    \/ \E u \in Users, writeOk \in BOOLEAN, expireOk \in BOOLEAN :
          IncrementCounter(u, writeOk, expireOk)
    \/ \E u \in Users, writeOk \in BOOLEAN : MarkWarningSent(u, writeOk)
    \/ \E u \in Users : Tick(u)

SpecWindow == Init /\ [][NextWindow]_vars

\* the buffer alone: messages are buffered by the inbound handler and rows are marked
\* by calls with any list of ids, an id without a row included
NextBuffer ==
    \/ \E u \in Users : NewMessage(u, "text", TRUE, TRUE, TRUE)
    \/ \E u \in Users : WindowExpires(u)
    \/ \E messageIds \in SUBSET (1..(Len(pending) + 1)) : MarkProcessed(messageIds)

SpecBuffer == Init /\ [][NextBuffer]_vars

\* one message and its job, with the wait of step 4.3 followed poll by poll while
\* the party starts and stops typing
NextWait ==
    \/ \E u \in Users : inbound = 0 /\ NewMessage(u, "text", TRUE, TRUE, TRUE)
    \/ \E j \in JobIds : Gather(j)
    \/ \E u \in Users : SetTyping(u)
    \/ \E u \in Users : ClearTyping(u)
    \/ \E j \in JobIds : BeginWait(j)
    \/ \E j \in JobIds, readOk \in BOOLEAN : Poll(j, readOk)
    \/ \E j \in JobIds : wait.pc = "returned" /\ wait.job = j /\ Reconcile(j)

SpecWait == Init /\ [][NextWait]_vars

\* turns saved one by one to a conversation and summarizeConversation called at any
\* moment, the Completion Service and the database transaction free to fail
NextMemory ==
    \/ \E u \in Users : SaveTurn(u)
    \/ \E u \in Users, outcome \in {"ok", "openaiFails", "txFails"} : Compact(u, outcome)

SpecMemory == Init /\ [][NextMemory]_vars

\* summarizeConversation step by step, with turns saved between its read and its
\* transaction
NextCompaction ==
    \/ \E u \in Users : SaveTurn(u)
    \/ \E u \in Users : ReadTurns(u)
    \/ \E u \in Users, outcome \in {"ok", "openaiFails", "txFails"} :
          CommitSummary(u, outcome)

SpecCompaction == Init /\ [][NextCompaction]_vars

\* the owner's stop command and two jobs of a party, their database statements
\* in any order
NextConversations ==
    \/ \E c \in Callers : FindConversation(c)
    \/ \E c \in Callers : CreateConversation(c)
    \/ \E c \in Callers : UpdateIgnored(c)
    \/ \E c \in Callers : SaveMessageTo(c)

SpecConversations == Init /\ [][NextConversations]_vars

\* saveFactsForUser calls for one party running side by side, as the extractions
\* started and not awaited by finished jobs do
NextFacts ==
    \/ \E t \in SaverIds, cats \in CategoryLists : StartSave(t, cats)
    \/ \E t \in SaverIds, dbOk \in BOOLEAN : FindFact(t, dbOk)
    \/ \E t \in SaverIds, dbOk \in BOOLEAN : WriteFact(t, dbOk)

SpecFacts == Init /\ [][NextFacts]_vars

\* messages that arrive in the same millisecond or a millisecond apart, and the jobs
\* the queue holds for them
NextQueue ==
    \/ \E u \in Users, dt \in {0, 1} : NewMessageAfter(u, "text", TRUE, TRUE, TRUE, dt)
    \/ \E u \in Users : WindowExpires(u)
    \/ \E j \in JobIds : Gather(j)

SpecQueue == Init /\ [][NextQueue]_vars

\* the owner switches the assistant off and on for a conversation while the party
\* writes and its jobs run, the gateway free to fail on the warning
NextIgnore ==
    \/ \E u \in Users, sendOk \in BOOLEAN : NewMessage(u, "text", TRUE, TRUE, sendOk)
    \/ \E u \in Users, kind \in {"stop", "continue"} : handleControlCommands(u, kind)
    \/ \E j \in JobIds : Gather(j)
    \/ \E j \in JobIds : Reconcile(j)
    \/ \E j \in JobIds, n \in 1..MaxChunks : Respond(j, TRUE, n, 0, "send")
    \/ \E j \in JobIds : Finalize(j)

SpecIgnore == Init /\ [][NextIgnore]_vars

\* the delivery of one reply: post-processing, splitting and the send loop with
\* its typos and corrections, the gateway free to fail
NextDeliver ==
    \/ \E content \in Replies, dropComma \in BOOLEAN, rnd \in RandomSources :
          StartDelivery(content, dropComma, rnd)
    \/ \E r \in TypoDraws, sendOk \in BOOLEAN : SendChunk(r, sendOk)
    \/ \E editOk \in BOOLEAN : FixTypo(editOk)

SpecDeliver == Init /\ [][NextDeliver]_vars

\* the delivery of one response of the Completion Service, text or reaction
NextReaction ==
    \/ \E aiResponse \in AIResponses, dropComma \in BOOLEAN, rnd \in RandomSources :
          Generated(aiResponse, dropComma, rnd)
    \/ \E r \in TypoDraws, sendOk \in BOOLEAN : SendChunk(r, sendOk)
    \/ \E editOk \in BOOLEAN : FixTypo(editOk)

SpecReaction == Init /\ [][NextReaction]_vars

\* the delivery of one reply, the short ones included
NextShort ==
    \/ \E content \in Replies \cup ShortReplies, dropComma \in BOOLEAN,
          rnd \in RandomSources : StartDelivery(content, dropComma, rnd)
    \/ \E r \in TypoDraws, sendOk \in BOOLEAN : SendChunk(r, sendOk)
    \/ \E editOk \in BOOLEAN : FixTypo(editOk)

SpecShort == Init /\ [][NextShort]_vars

\* introduceTypo on every chunk of TypoTexts with every draw
NextTypo == \E text \in TypoTexts, r \in TypoDraws : Typo(text, r)

SpecTypo == Init /\ [][NextTypo]_vars

\* splitIntoMessages on every text of up to MaxLen characters
NextSplit ==
    delivery.pc = "idle" /\ \E text \in Texts, rnd \in RandomSources : Split(text, rnd)

SpecSplit == Init /\ [][NextSplit]_vars

\* the handler runs on: the call is made, every turn of the loop ends, and the
\* handler goes on after the call returns
SpecWaitFair ==
    /\ SpecWait
    /\ WF_vars(\E j \in JobIds : BeginWait(j))
    /\ WF_vars(\E j \in JobIds, readOk \in BOOLEAN : Poll(j, readOk))
    /\ WF_vars(\E j \in JobIds : wait.pc = "returned" /\ wait.job = j /\ Reconcile(j))

\* the queue runs every job it holds and a running job takes its next step; a job
\* that stays at the Completion Service call gets an answer and its chunks delivered
SpecLive ==
    /\ Spec
    /\ \A j \in JobIds :
          /\ WF_vars(Gather(j))
          /\ WF_vars(Reconcile(j))
          /\ WF_vars(Finalize(j))
          /\ SF_vars(\E n \in 1..MaxChunks : Respond(j, TRUE, n, 0, "send"))

TypeOK ==
    /\ inbound \in 0..MaxInbound
    /\ ownerSent \in 0..MaxEvents
    /\ \A j \in JobIds : jobs[j].pc \in {"none", "queued", "await", "generating",
                             "finalizing", "done", "failed"}

\* ======================= properties =======================

\* the job has passed the second buffer read
Reconciled(j) ==
    \/ jobs[j].pc \in {"generating", "finalizing", "failed"}
    \/ jobs[j].pc = "done" /\ jobs[j].result \in {"cancelled", "replied"}

Active(j) == jobs[j].pc \in {"await", "generating", "finalizing"}

JobsOf(u) == {j \in JobIds : jobs[j].userId = u}

TurnsBy(j) ==
    IF jobs[j].userId \in Users
    THEN {i \in 1..Len(history[jobs[j].userId]) : history[jobs[j].userId][i].job = j}
    ELSE {}

AssistantTurnsBy(j) ==
    {i \in TurnsBy(j) : history[jobs[j].userId][i].role = "assistant"}

\* the context of job j holds the user turn of pending row i
InContext(j, i) ==
    \E c \in 1..Len(jobs[j].ctx) :
        jobs[j].ctx[c] = [role |-> "user", content |-> <<pending[i].content>>]

\* the chunks with a line break between neighbours
Joined(chunks) ==
    [i \in 1..(2 * Len(chunks) - 1) |-> IF i % 2 = 1 THEN chunks[(i + 1) \div 2] ELSE NL]

GenFailed(j) == jobs[j].pc = "failed" /\ jobs[j].messages = <<>>
SendFailed(j) == jobs[j].pc = "failed" /\ jobs[j].messages # <<>>

\* C1: when all messages of a party were buffered before any of its jobs finished
\* waiting (no owner intervention, no error), the jobs together make at most one
\* Completion Service call and deliver at most one reply, and the context of that
\* call holds every one of the messages.
C1_Coalescing ==
    \A u \in Users :
        LET rows == SeqToSet(getPendingMessagesAll(u))
            callers == {j \in JobIds : jobs[j].userId = u /\ jobs[j].calls > 0}
            repliers == {j \in JobIds : jobs[j].userId = u /\ jobs[j].sent # <<>>}
        IN  ( /\ ownerSent = 0
              /\ ~ignored[u]
              /\ droppedIgnored = {}
              /\ \A j \in JobsOf(u) : jobs[j].result # "error"
              /\ \A j \in JobsOf(u) : Reconciled(j) => jobs[j].seen = Cardinality(rows) )
            => /\ Cardinality(callers) <= 1
               /\ Cardinality(repliers) <= 1
               /\ \A j \in callers : \A i \in rows : InContext(j, i)

\* C2: no pending message is among the surviving ids of two jobs that both
\* delivered a reply (jobs that ended with an error aside).
C2_NoDuplicateSend ==
    \A j, k \in JobIds :
        ( /\ j # k
          /\ jobs[j].sent # <<>> /\ jobs[k].sent # <<>>
          /\ jobs[j].result # "error" /\ jobs[k].result # "error" )
        => SeqToSet(jobs[j].still) \cap SeqToSet(jobs[k].still) = {}

\* C3 as stated: a job whose whole batch was found processed at the second read ends
\* cancelled with no Completion Service call, nothing sent, nothing marked and no
\* turn at all written by it to the conversation.
C3_NoSideEffects ==
    \A j \in JobIds :
        (Reconciled(j) /\ jobs[j].claimedAtRecheck = SeqToSet(jobs[j].batch))
        => /\ jobs[j].pc = "done" /\ jobs[j].result = "cancelled"
           /\ jobs[j].calls = 0 /\ jobs[j].sent = <<>> /\ jobs[j].marked = {}
           /\ TurnsBy(j) = {}

\* C3 amended: a job whose whole batch was found processed at the second read ends
\* cancelled with no Completion Service call, nothing sent, nothing marked and no
\* assistant turn written by it.
C3_Reconciliation ==
    \A j \in JobIds :
        (Reconciled(j) /\ jobs[j].claimedAtRecheck = SeqToSet(jobs[j].batch))
        => /\ jobs[j].pc = "done" /\ jobs[j].result = "cancelled"
           /\ jobs[j].calls = 0 /\ jobs[j].sent = <<>> /\ jobs[j].marked = {}
           /\ AssistantTurnsBy(j) = {}

C3_Witness ==
    \E j \in JobIds :
        /\ jobs[j].result = "cancelled"
        /\ jobs[j].batch # <<>>
        /\ \A i \in SeqToSet(jobs[j].batch) : pending[i].processed

\* C4: a job sends the first chunk of its reply only while some id of its batch is
\* still unprocessed.
C4_RecheckBeforeDelivering ==
    [][\A j \in JobIds :
          (jobs[j].sent = <<>> /\ jobs'[j].sent # <<>>)
          => \E i \in SeqToSet(jobs[j].batch) : ~pending[i].processed]_vars

\* C5: a job that found only part of its batch processed at the second read still
\* replies; its context holds the user turn of every id of the first read, and the
\* ids it marks are those of the first read not found processed at the second read.
C5_PartialReconciliation ==
    \A j \in JobIds :
        /\ (Reconciled(j) /\ jobs[j].claimedAtRecheck # SeqToSet(jobs[j].batch))
           => jobs[j].result # "cancelled"
        /\ jobs[j].calls > 0 => \A i \in SeqToSet(jobs[j].batch) : InContext(j, i)
        /\ jobs[j].result = "replied"
           => /\ jobs[j].marked = SeqToSet(jobs[j].batch) \ jobs[j].claimedAtRecheck
              /\ \A i \in jobs[j].marked : pending[i].processed

C5_Witness ==
    \E j \in JobIds :
        /\ jobs[j].result = "replied"
        /\ jobs[j].claimedAtRecheck # {}
        /\ jobs[j].marked # {}

\* C6: every unprocessed pending message is in the batch of at most one job that is
\* between its first buffer read and its end.
C6_ExclusiveVisibility ==
    \A i \in 1..Len(pending) :
        ~pending[i].processed
        => Cardinality({j \in JobIds : Active(j) /\ i \in SeqToSet(jobs[j].batch)}) <= 1

\* C7: a job whose Completion Service call failed has sent nothing, marked nothing
\* and written no assistant turn; the failing step leaves the buffer as it is, and the
\* next job of the party to read the buffer reads every id the failed job had kept
\* that is still unprocessed.
C7_GenerationFailure ==
    /\ [](\A j \in JobIds :
            GenFailed(j) => /\ jobs[j].calls = 1
                            /\ jobs[j].sent = <<>>
                            /\ jobs[j].marked = {}
                            /\ AssistantTurnsBy(j) = {})
    /\ [][\A j \in JobIds :
            /\ (jobs[j].pc = "generating" /\ jobs'[j].pc = "failed") => pending' = pending
            /\ GenFailed(j)
               => \A k \in JobsOf(jobs[j].userId) :
                    (jobs[k].pc = "queued" /\ jobs'[k].pc # "queued")
                    => \A i \in SeqToSet(jobs[j].still) :
                         ~pending[i].processed
                         => i \in SeqToSet(jobs'[k].batch) \cup jobs'[k].marked]_vars

C7_Witness ==
    \E j, k \in JobIds :
        /\ GenFailed(j)
        /\ k # j
        /\ jobs[k].pc = "await"
        /\ SeqToSet(jobs[j].still) \subseteq SeqToSet(jobs[k].batch)
        /\ TurnsBy(k) # {}
        /\ \A a \in TurnsBy(j), b \in TurnsBy(k) : a < b

\* C8: when a chunk fails to be sent, no later chunk is sent, and the conversation
\* holds an assistant turn of the job made of the chunks sent before the failure.
C8_PartialDelivery ==
    \A j \in JobIds :
        SendFailed(j)
        => /\ Len(jobs[j].sent) < Len(jobs[j].messages)
           /\ \E t \in AssistantTurnsBy(j) :
                 history[jobs[j].userId][t].content = Joined(jobs[j].sent)

C10_IgnoredDrained ==
    Quiescent
    => \A k \in droppedIgnored :
          \E i \in 1..Len(pending) :
              pending[i].telegramMessageId = k /\ pending[i].processed

\* C10 amended: a message that arrives while the conversation is ignored is not
\* buffered and schedules no job; a job that starts on an ignored conversation marks
\* every unprocessed row of the party and calls nothing, sends nothing, writes nothing.
C10_IgnoredConversation ==
    /\ [](/\ \A k \in droppedIgnored :
               /\ jobs[k].pc = "none"
               /\ \A i \in 1..Len(pending) : pending[i].telegramMessageId # k
          /\ \A j \in JobIds :
               jobs[j].result = "ignored"
               => /\ jobs[j].calls = 0 /\ jobs[j].sent = <<>> /\ TurnsBy(j) = {}
                  /\ \A i \in jobs[j].marked : pending[i].processed)
    /\ [][\A j \in JobIds :
            (jobs[j].pc = "queued" /\ ignored[jobs[j].userId] /\ jobs'[j].pc # "queued")
            => /\ jobs'[j].result = "ignored"
               /\ \A i \in 1..Len(pending) :
                     pending[i].userId = jobs[j].userId => pending'[i].processed]_vars

C10_Witness ==
    /\ droppedIgnored # {}
    /\ Quiescent
    /\ \E u \in Users : ignored[u]

\* ---- rate gate (SpecRate) ----

\* the inbound message with telegram message id k has a row in the buffer
Buffered(k) ==
    \E i \in 1..Len(pending) :
        /\ pending[i].telegramMessageId = k
        /\ pending[i].content = MsgText(k)
\* a job was scheduled for it
Scheduled(k) == jobs[k].pc # "none"

\* the messages of the current window
Window == (rateLog.winStart + 1)..inbound

\* C11: in a window without a store failure the first maxMessagesPerHour messages
\* are buffered and scheduled, and every later message of the window is suppressed:
\* neither buffered nor scheduled.
C11_RateGating ==
    ~rateLog.fault
    => \A k \in Window :
          IF k - rateLog.winStart <= maxMessagesPerHour
          THEN Buffered(k) /\ Scheduled(k) /\ k \notin rateLog.suppressed
          ELSE ~Buffered(k) /\ ~Scheduled(k) /\ k \in rateLog.suppressed

C11_Witness ==
    /\ ~rateLog.fault
    /\ rateLog.winStart > 0
    /\ Cardinality(rateLog.suppressed) = MaxSuppressed - 1

\* C12: within one window the warning message is delivered to the party at most
\* once.
C12_WarnOnce == Cardinality(rateLog.warned) <= 1

\* C13: a message whose checkLimit could not read the store is buffered and
\* scheduled, is not suppressed and causes no warning, whatever the counter holds.
C13_FailOpen ==
    \A k \in rateLog.readFailed :
        /\ Buffered(k) /\ Scheduled(k)
        /\ jobs[k].userId \in Users
        /\ k \notin rateLog.suppressed /\ k \notin rateLog.warned

C13_Witness ==
    \E k \in rateLog.readFailed :
        /\ k - rateLog.winStart > maxMessagesPerHour
        /\ \E m \in rateLog.suppressed : m < k
        /\ ~pending[Len(pending)].processed /\ pending[Len(pending)].telegramMessageId = k

\* ---- awaitQuiet (SpecWait) ----

\* C14: when waitForUserToStopTyping returns true, quietMs or more have passed since
\* the call, and no poll of the last quietMs (the returning one included) saw the
\* party typing.
C14_QuietBeforeReturn ==
    (wait.pc = "returned" /\ wait.result)
    => /\ wait.elapsed >= quietMs
       /\ wait.obs # <<>>
       /\ \A i \in 1..Len(wait.obs) : ~wait.obs[i].typing

C14_Witness ==
    /\ wait.pc = "returned" /\ wait.result
    /\ wait.elapsed > quietMs + typingTtl * 1000

\* C15: a job that has reached the wait leaves it: the call returns and the job goes
\* on to the second buffer read, after a return of false as after a return of true.
C15_AwaitQuietTerminates ==
    \A j \in JobIds :
        (jobs[j].pc = "await") ~> (jobs[j].pc \in {"generating", "done"})

C15_Witness ==
    /\ wait.pc = "returned" /\ ~wait.result
    /\ jobs[wait.job].pc = "generating"

\* ---- pending-message buffer ----

\* C16: for any two id sets, marking one and then the other leaves the buffer as
\* marking their union does; marking a set twice is marking it once; the rows named
\* end processed with their other fields as they were, and the rows not named are
\* left as they are (an id without a row is passed over).
C16_IdempotentMark ==
    \A A, B \in SUBSET (1..(Len(pending) + 1)) :
        LET once == markPendingMessagesAsProcessed(pending, A)
        IN  /\ markPendingMessagesAsProcessed(once, B)
                  = markPendingMessagesAsProcessed(pending, A \cup B)
            /\ markPendingMessagesAsProcessed(once, A) = once
            /\ Len(once) = Len(pending)
            /\ \A i \in 1..Len(pending) :
                  IF i \in A
                  THEN once[i] = [pending[i] EXCEPT !.processed = TRUE]
                  ELSE once[i] = pending[i]

C16_Witness ==
    \E i, k \in 1..Len(pending) : pending[i].processed /\ ~pending[k].processed

\* C17: no step turns a processed row back to unprocessed, and a job that reads the
\* buffer in a step reads no row that was processed before the step; the query
\* never returns a processed row.
C17_ProcessedIsFinal ==
    /\ [](\A u \in Users : \A i \in SeqToSet(getPendingMessages(u)) : ~pending[i].processed)
    /\ [][/\ \A i \in 1..Len(pending) : pending[i].processed => pending'[i].processed
          /\ \A j \in JobIds :
                (jobs[j].pc = "queued" /\ jobs'[j].pc = "await")
                => \A i \in SeqToSet(jobs'[j].batch) : ~pending[i].processed]_vars

C17_Witness ==
    \E j \in JobIds :
        /\ jobs[j].pc = "await"
        /\ \E i \in 1..Len(pending) :
              /\ pending[i].processed
              /\ i < j
              /\ i \notin SeqToSet(jobs[j].batch)
              /\ jobs[i].result = "replied"

C25_EmptyReadNoEffects ==
    [][\A j \in JobIds :
          ( /\ jobs[j].pc = "queued" /\ jobs'[j].pc # "queued"
            /\ ~ignored[jobs[j].userId]
            /\ getPendingMessages(jobs[j].userId) = <<>> )
          => /\ jobs' = [jobs EXCEPT ![j].pc = "done", ![j].result = "noop"]
             /\ UNCHANGED <<pending, ignored, history, inbound, droppedIgnored, ownerSent,
                            rate, rateLog, typing, wait, memory, userFacts, savers,
                            lastFact, delivery, chat, sched>>]_vars

\* a job found the buffer emptied by the reply of another job
C25_Witness ==
    \E j, k \in JobIds :
        /\ jobs[j].result = "noop" /\ jobs[j].calls = 0 /\ TurnsBy(j) = {}
        /\ jobs[k].result = "replied"
        /\ j \in jobs[k].marked

\* C26: the context a job goes on to generate with, once its wait and its second
\* buffer read are over, is the context of the conversation as stored at that moment.
C26_ContextAfterWait ==
    [][\A j \in JobIds :
          (jobs[j].pc = "await" /\ jobs'[j].pc = "generating")
          => jobs'[j].ctx = getConversationContext(history[jobs[j].userId])]_vars

\* C27: the conversation holds at most one user turn for each row of the buffer.
C27_TurnOncePerMessage ==
    \A i \in 1..Len(pending) :
        Cardinality({t \in 1..Len(history[pending[i].userId]) :
                        /\ history[pending[i].userId][t].role = "user"
                        /\ history[pending[i].userId][t].content = <<pending[i].content>>})
            <= 1

\* C28: every row of the buffer is processed in the end.
C28_EventuallyProcessed ==
    \A i \in 1..MaxInbound :
        (Len(pending) >= i) ~> (Len(pending) >= i /\ pending[i].processed)

\* the job has ended on the path of a conversation that is not ignored
Finished(j) == jobs[j].pc = "done" /\ jobs[j].result \in {"replied", "cancelled"}

\* C29 as stated: a job marks only ids of both its reads, and when it ends, the
\* owner not having written, every row buffered after its first read is unprocessed.
C29_LateMessageUnprocessed ==
    [][\A j \in JobIds :
          /\ jobs'[j].result # "ignored"
             => jobs'[j].marked \subseteq
                   SeqToSet(jobs'[j].batch) \ jobs'[j].claimedAtRecheck
          /\ (~Finished(j) /\ Finished(j)' /\ ownerSent' = 0)
             => \A i \in 1..Len(pending') :
                   i > jobs'[j].gathered => ~pending'[i].processed]_vars

\* C29 amended: a job marks only ids of both its reads, and no step of a job on the
\* path of a conversation that is not ignored changes a row outside both reads, a
\* row buffered after its first read least of all.
C29_MarksOnlyReconciled ==
    [][\A j \in JobIds :
          /\ jobs'[j].result # "ignored"
             => jobs'[j].marked \subseteq
                   SeqToSet(jobs'[j].batch) \ jobs'[j].claimedAtRecheck
          /\ (jobs[j].pc # "none" /\ jobs'[j] # jobs[j] /\ jobs'[j].result # "ignored")
             => /\ Len(pending') = Len(pending)
                /\ \A i \in 1..Len(pending) :
                      ( \/ i > jobs'[j].gathered
                        \/ i \notin SeqToSet(jobs'[j].batch) \cap SeqToSet(jobs'[j].still) )
                      => pending'[i] = pending[i]]_vars

\* a job replied and marked its rows while a row buffered after its first read is
\* still unprocessed
C29_Witness ==
    \E j \in JobIds :
        /\ jobs[j].result = "replied" /\ jobs[j].marked # {}
        /\ \E i \in 1..Len(pending) : i > jobs[j].gathered /\ ~pending[i].processed

\* C30: while a conversation is flagged ignored nothing is sent to its party, neither
\* the rate-limit warning nor a chunk of a reply.
C30_NothingSentToIgnored ==
    [][\A u \in Users :
          ignored[u]
          => /\ rateLog'.warned \subseteq rateLog.warned
             /\ \A j \in JobIds :
                   jobs[j].userId = u => jobs'[j].sent = jobs[j].sent]_vars

\* ---- failures (SpecFail) ----

\* the k-th text job j handed to sendMessage is a chunk of its reply or that chunk
\* with a typo
IsChunkOrTypo(j, k) ==
    /\ k <= Len(jobs[j].messages)
    /\ jobs[j].sent[k] \in {jobs[j].messages[k], TypoOf(jobs[j].messages[k])}

\* C34: every text a job sends is a chunk of its generated reply or the typo variant
\* of that chunk, a job whose Completion Service call failed has sent nothing, and
\* the inbound handler sends nothing but the warning, on a message over the limit.
C34_NoFailureText ==
    /\ \A j \in JobIds :
          /\ \A k \in 1..Len(jobs[j].sent) : IsChunkOrTypo(j, k)
          /\ (jobs[j].result = "error" /\ jobs[j].messages = <<>>) => jobs[j].sent = <<>>
    /\ rateLog.warned \subseteq rateLog.suppressed

\* one job failed in the Completion Service call, another failed in the send loop
\* after it had sent a chunk, the rate store could not be read for a message, and
\* the warning went out on a later one
C34_Witness ==
    /\ \E j \in JobIds : jobs[j].result = "error" /\ jobs[j].messages = <<>>
    /\ \E j \in JobIds :
          jobs[j].result = "error" /\ jobs[j].sent # <<>> /\ jobs[j].messages # <<>>
    /\ rateLog.readFailed # {}
    /\ rateLog.warned # {}

\* ---- owner commands (SpecOwner) ----

C31_EveryRecordExpires ==
    \A u \in Users : (rate[u].count > 0 \/ rate[u].warningSent) => rate[u].left > 0

\* C32: the window starts when the count goes from 0 to 1 and ends ttl seconds later;
\* a later increment leaves the expiry alone; count and warning flag go together.
C32_FixedWindow ==
    [][\A u \in Users :
          /\ (rate[u].count = 0 /\ rate'[u].count = 1) => rate'[u].left = ttl
          /\ (rate[u].count >= 1 /\ rate'[u].count = rate[u].count + 1)
             => rate'[u].left = rate[u].left
          /\ rate'[u].count >= 1
             => rate'[u].left = ttl - (window'.now - window'.openedAt) * TickSeconds
          /\ (rate[u].left > 0 /\ rate'[u].left = 0) => rate'[u] = NoRate]_vars

\* ---- cosmetic requests (SpecCosmetic) ----

\* C35: a job whose typing indicator failed goes on as ever: it makes its Completion
\* Service call, and it fails only when that call or the send loop fails, delivers
\* all chunks otherwise, and leaves buffer and history alone in that step; a message
\* whose read receipt failed is dropped when the conversation is ignored and
\* buffered and scheduled otherwise.
C35_CosmeticSwallowed ==
    /\ [][\A j \in JobIds :
             (jobs[j].pc = "generating" /\ jobs'[j].pc # "generating"
                 /\ jobs'[j].typingFailed)
             => /\ jobs'[j].calls = jobs[j].calls + 1
                /\ jobs'[j].pc \in {"failed", "finalizing"}
                /\ jobs'[j].pc = "failed"
                   => \/ jobs'[j].messages = <<>>
                      \/ jobs'[j].sent # jobs'[j].messages
                /\ jobs'[j].pc = "finalizing"
                   => jobs'[j].messages # <<>> /\ jobs'[j].sent = jobs'[j].messages
                /\ pending' = pending /\ history' = history]_vars
    /\ [](\A k \in receipts :
             \/ k \in droppedIgnored /\ ~Buffered(k) /\ ~Scheduled(k)
             \/ k \notin droppedIgnored /\ Buffered(k) /\ Scheduled(k))

\* a job whose typing indicator failed has replied, to a message whose read receipt
\* failed, and a later message whose receipt failed was dropped as ignored
C35_Witness ==
    /\ \E j \in JobIds :
          jobs[j].typingFailed /\ jobs[j].result = "replied" /\ j \in receipts
    /\ receipts \cap droppedIgnored # {}

\* ---- compaction (SpecMemory) ----

\* C18: in every step the summary of a conversation changes exactly when turns of
\* it are deleted; then the summary is that of the deleted turns and the last
\* contextMessagesLimit turns are what is left.
C18_CompactionAtomic ==
    [][\A u \in Users :
          /\ (memory'[u].summary # memory[u].summary)
                <=> (Len(history'[u]) < Len(history[u]))
          /\ Len(history'[u]) < Len(history[u])
             => /\ history'[u] = LastN(history[u], contextMessagesLimit)
                /\ memory'[u].summary =
                      SummaryOf(SubSeq(history[u], 1,
                                       Len(history[u]) - contextMessagesLimit))]_vars

C18_Witness ==
    \E u \in Users :
        /\ memory[u].aborted > 0
        /\ memory[u].summary # <<>>
        /\ Len(history[u]) = contextMessagesLimit

\* C40: once setConversationIgnored(party, true) has returned (no call with false
\* is ever made), isConversationIgnored(party) returns true.
C40_IgnoreFlagConsistent == convs.setDone => isConversationIgnoredIn(convs.rows)

\* the turns of a sequence, as a set
TurnSet(turns) == {turns[i] : i \in 1..Len(turns)}

\* the turns saved after the read of the call under way
AppendedSinceRead(u) ==
    IF compaction[u].pc # "read" THEN {}
    ELSE {t \in TurnSet(history[u]) :
            \E k \in (compaction[u].readAt + 1)..memory[u].saved :
                t.content = <<MsgText(k)>>}

\* C39: the step in which a summarizeConversation call deletes turns deletes
\* exactly the turns the call handed to summarizeMessages, and keeps the others in
\* their order: a turn saved since the call's read stays, and when none was saved
\* since, the last contextMessagesLimit turns are what is left.
C39_DeletesWhatItSummarized ==
    [][\A u \in Users :
          Len(history'[u]) < Len(history[u])
          => /\ TurnSet(history[u]) \ TurnSet(history'[u])
                   = TurnSet(compaction[u].messagesToSummarize)
             /\ memory'[u].summary = SummaryOf(compaction[u].messagesToSummarize)
             /\ AppendedSinceRead(u) \subseteq TurnSet(history'[u])
             /\ history'[u] = LastN(history[u],
                                    contextMessagesLimit + Cardinality(AppendedSinceRead(u)))
             /\ AppendedSinceRead(u) = {}
                => history'[u] = LastN(history[u], contextMessagesLimit)]_vars

\* a call committed after turns were saved since its read: they are in the
\* conversation, behind the contextMessagesLimit turns that were the last at the read
C39_Witness ==
    \E u \in Users :
        /\ compaction[u].pc = "idle"
        /\ memory[u].calls = 1 /\ memory[u].summary # <<>>
        /\ compaction[u].doneAt > compaction[u].readAt
        /\ memory[u].saved = compaction[u].doneAt
        /\ Len(history[u]) = contextMessagesLimit
                               + (compaction[u].doneAt - compaction[u].readAt)
        /\ history[u][Len(history[u])].content = <<MsgText(memory[u].saved)>>

\* C19: a call of summarizeConversation on a conversation of summaryThreshold turns
\* or fewer calls the Completion Service not at all and leaves the summary and the
\* turns as they are.
C19_CompactionTrigger ==
    [][\A u \in Users :
          Len(history[u]) <= summaryThreshold
          => /\ memory'[u].calls = memory[u].calls
             /\ memory'[u].summary = memory[u].summary
             /\ Len(history'[u]) >= Len(history[u])]_vars

\* ---- job identity (SpecQueue) ----

\* C23: every message that was buffered has a job of its own in the queue: no add
\* met a job id that was taken.
C23_UniqueTaskIdentity ==
    /\ sched.merged = {}
    /\ \A k \in 1..inbound : Buffered(k) => Scheduled(k)

\* ---- delivery (SpecDeliver, SpecSplit) ----

\* C21: after a delivery that ended without an error, every message sent for it
\* carries the text of its chunk as it was before any typo.
C21_TypoRoundTrip ==
    delivery.pc = "done"
    => \A k \in 1..Len(chat) : chat[k].text = delivery.messages[chat[k].chunk]

\* C38: the chunk the send loop is about to hand to sendMessage is not empty, and
\* no message of the chat was sent with an empty text.
C38_ChunksNonEmpty ==
    /\ delivery.pc = "sending" => delivery.messages[delivery.i] # <<>>
    /\ \A k \in 1..Len(chat) : chat[k].text # <<>>

\* C37: no message in the chat carries an emoji that is not one of the allowed
\* reactions (in the model only a reaction response carries an emoji).
C37_ForeignSymbolNeverSent ==
    \A k \in 1..Len(chat) : \A i \in 1..Len(chat[k].text) : chat[k].text[i] # WAVE

\* the characters of a word: a surrogate pair is one character, a surrogate on its
\* own is a character that is no character of any well-formed text
RECURSIVE codePoints(_)
codePoints(word) ==
    IF word = <<>> THEN <<>>
    ELSE IF Len(word) >= 2 /\ word[1] = HI /\ word[2] = LO
    THEN <<SubSeq(word, 1, 2)>> \o codePoints(SubSeq(word, 3, Len(word)))
    ELSE <<SubSeq(word, 1, 1)>> \o codePoints(Tail(word))

SameEnds(w1, w2) ==
    LET c1 == codePoints(w1)
        c2 == codePoints(w2)
    IN  IF c1 = <<>> \/ c2 = <<>> THEN c1 = c2
        ELSE c1[1] = c2[1] /\ c1[Len(c1)] = c2[Len(c2)]

\* the words of a text that are not empty
Words(text) == SelectSeq(splitSpace(text, <<>>), LAMBDA w : w # <<>>)

\* C36: a result with hasTypo carries a changed, non-empty text and the input as
\* originalText, and every word keeps its first and its last character; a result
\* without hasTypo carries the input.
C36_TypoKeepsEnds ==
    /\ delivery.pc = "typo"
       => LET out == delivery.messages[1] IN
          /\ out # <<>> /\ out # delivery.text
          /\ delivery.originalText = delivery.text
          /\ Len(Words(out)) = Len(Words(delivery.text))
          /\ \A k \in 1..Len(Words(out)) :
                SameEnds(Words(delivery.text)[k], Words(out)[k])
    /\ delivery.pc = "plain" => delivery.messages[1] = delivery.text

\* the text cut after every mark: the pieces that end with a mark, and the rest
RECURSIVE CutAfterMarks(_, _)
CutAfterMarks(text, cur) ==
    IF text = <<>> THEN [pieces |-> <<>>, rest |-> cur]
    ELSE IF Head(text) \in Punct
    THEN LET more == CutAfterMarks(Tail(text), <<>>)
         IN  [pieces |-> <<Append(cur, Head(text))>> \o more.pieces, rest |-> more.rest]
    ELSE CutAfterMarks(Tail(text), Append(cur, Head(text)))

\* the words of a piece, without its mark
Body(piece) == trim(SubSeq(piece, 1, Len(piece) - 1))

\* the text is k sentences, each some words ended by one mark
SentenceText(text) ==
    LET cut == CutAfterMarks(text, <<>>)
    IN  /\ cut.pieces # <<>>
        /\ trim(cut.rest) = <<>>
        /\ \A i \in 1..Len(cut.pieces) : Body(cut.pieces[i]) # <<>>

\* C22: under a random source that always flushes, a text of k sentences is split
\* into k chunks, the i-th being the words of the i-th sentence with its mark.
C22_SplitAlwaysFlush ==
    (delivery.pc = "split" /\ delivery.rnd = AlwaysFlush /\ SentenceText(delivery.text))
    => LET pieces == CutAfterMarks(delivery.text, <<>>).pieces
       IN  /\ Len(delivery.messages) = Len(pieces)
           /\ \A i \in 1..Len(pieces) :
                 delivery.messages[i] = Append(Body(pieces[i]), pieces[i][Len(pieces[i])])

C22_Witness ==
    /\ delivery.pc = "split" /\ delivery.rnd = AlwaysFlush
    /\ SentenceText(delivery.text)
    /\ Len(delivery.messages) = 3
    /\ delivery.messages[1] # delivery.messages[2]
    /\ delivery.messages[2] # delivery.messages[3]

\* ---- facts (SpecFacts) ----

\* C20: the party has at most one stored fact per category, and the stored fact of
\* a category is the one most recently written for it.
C20_FactUpsert ==
    \A c \in Categories :
        LET rows == {i \in 1..Len(userFacts) : userFacts[i].category = c}
        IN  /\ Cardinality(rows) <= 1
            /\ \A i \in rows : userFacts[i].fact = lastFact[c]

====
